---- MODULE Spec2Model ----
(***************************************************************************)
(* Model of the response-decision pipeline of the chat agent:              *)
(*   - the provider dispatcher askAI (src/ai/openrouter.js)                *)
(*   - the engagement gate, the availability simulator and the message     *)
(*     batcher (src/utils/messageHandler.js)                               *)
(*   - the trust heuristics (src/utils/memory.js)                          *)
(*   - the stores on disk (src/utils/memory.js)                            *)
(*   - the message-handling flow and the memory extraction of the bot      *)
(* The specifications share the variables: SpecDispatch runs askAI;        *)
(* SpecBatch runs the message handler on few kinds of messages with a fine *)
(* clock; SpecGate and SpecTrust run it on many kinds with a coarse clock, *)
(* in direct-engagement-only mode and in respond-to-all mode; SpecStore    *)
(* runs the store functions and processBatchedMemory; SpecAvailability     *)
(* runs shouldGoAway and getRealisticTypingDelay; SpecFlow runs            *)
(* processUserMessage with askAI; SpecDisk runs the load and save functions *)
(* on disks with missing directories; SpecReply runs the reply lookup of   *)
(* processUserMessage and the batcher of src/messageBuffer.js; SpecView    *)
(* runs getCombinedPromptMemory; SpecMention runs processUserMessage on    *)
(* private messages that mention a server; SpecOverlap runs two            *)
(* processUserMessage invocations of one identity that may overlap;        *)
(* SpecDeliver runs the batcher with a fair clock and fair timeouts;       *)
(* SpecScope runs processBatchedMemory on buffers of mixed contexts.       *)
(* Optional values (null / undefined) are sequences of length 0 or 1.      *)
(***************************************************************************)
EXTENDS Integers, Sequences, FiniteSets, TLC

VARIABLES
    settings,         \* module.exports of settings.js
    ask,              \* the locals of the askAI invocation in flight
    calls,            \* provider calls made by that invocation, in order
    result,           \* what askAI returned (<<>> while it has not)
    raised,           \* the errors askAI raised to its caller, in order
    now,              \* Date.now(), in ms of local time
    aiStatus,         \* messageHandler.js: aiStatus
    messageCounters,  \* messageHandler.js: messageCounters
    messageBuffers,   \* messageHandler.js: messageBuffers, by buffer key
    timers,           \* the timeouts armed by setTimeout and not yet fired or cleared
    memoryFiles,      \* the memory.json files, by path
    delivered,        \* the calls of processFn, in order
    sent,             \* the calls of channel.send made by handleMessage, in order
    nHandled,         \* number of handleMessage calls so far
    lastGate,         \* the course of the latest handleMessage call
    chatFiles,        \* the chat.json files, by path
    flow,             \* the locals of the processUserMessage invocation in flight
    extractionBuffers,\* the bot's messageBuffers: the messages awaiting extraction, by user
    botState,         \* the bot's botState
    activityLog,      \* the calls of dashboard.logActivity made by the bot, in order
    replies,          \* the calls of channel.send made by processUserMessage, in order
    lastCall,         \* the latest call of a store, extraction, availability, delay or fetch function
    directories,      \* the directories of the stores that exist on disk
    userBuffers,      \* messageBuffer.js: messageBuffers, by user
    fetching,         \* messageBuffer.js: the handleMessage calls that await their fetch
    consoleErrors,    \* the calls of console.error about a referenced message, in order
    emitted,          \* the 'prompt-response' events sendResponseData emits, in order
    parked            \* the processUserMessage invocation suspended at its await while another runs

aiVars == <<ask, calls, result, raised>>

handlerVars == <<now, aiStatus, messageCounters, messageBuffers, timers, memoryFiles,
                 delivered, sent, nHandled, lastGate>>

\* the variables of messageBuffer.js and the console
replyVars == <<userBuffers, fetching, consoleErrors>>

botVars == <<chatFiles, flow, extractionBuffers, botState, activityLog, replies, lastCall,
             directories, userBuffers, fetching, consoleErrors, emitted, parked>>

vars == <<settings, ask, calls, result, raised, now, aiStatus, messageCounters,
          messageBuffers, timers, memoryFiles, delivered, sent, nHandled, lastGate,
          chatFiles, flow, extractionBuffers, botState, activityLog, replies, lastCall,
          directories, userBuffers, fetching, consoleErrors, emitted, parked>>

(***************************************************************************)
(* Provider dispatcher                                                     *)
(***************************************************************************)

\* the provider names askAI has a branch for
Providers == {"openrouter", "gemini", "chutes", "colab"}

\* names a settings file can hold: the providers, a differently cased
\* spelling and a name of no provider
Names == Providers \cup {"Gemini", "bogus"}

\* String.prototype.toLowerCase on the provider and channel names of the model
ToLower(n) ==
    CASE n = "Gemini" -> "gemini"
      [] n = "Bot-Spam" -> "bot-spam"
      [] OTHER -> n

\* the fallback orders explored (the first is the one of settings.js)
FallbackOrders ==
    { <<"openrouter", "chutes", "gemini">>,
      <<"gemini", "colab">>,
      <<"chutes">>,
      <<"bogus", "gemini">>,
      <<"Gemini", "chutes">>,
      <<>> }

\* texts a provider can answer with
Texts == {"", "hello"}

\* the failures a provider call can end with
ErrorKinds == {"rate_limit", "server_error"}

\* the value of an uninitialised `response`
Undefined == "undefined"

\* message of the error provider p throws for failure kind k
ProviderError(p, k) == [kind |-> "provider", provider |-> p, detail |-> k, primaryMsg |-> <<>>, lastMsg |-> <<>>]

UnknownProviderError(p) == [kind |-> "unknown_provider", provider |-> p, detail |-> "", primaryMsg |-> <<>>, lastMsg |-> <<>>]

NoFallbacksConfiguredError(p) == [kind |-> "no_fallbacks_configured", provider |-> p, detail |-> "", primaryMsg |-> <<>>, lastMsg |-> <<>>]

NoOtherFallbacksError(p) == [kind |-> "no_other_fallbacks", provider |-> p, detail |-> "", primaryMsg |-> <<>>, lastMsg |-> <<>>]

\* an aggregate error that names the primary's error twice
AllFailedError_PrimaryTwice(p, primaryError, lastError) ==
    [kind |-> "all_failed", provider |-> p, detail |-> "", primaryMsg |-> <<primaryError>>, lastMsg |-> <<primaryError>>]

\* `All AI providers failed. Primary (p) error: ${primaryError.message}. Last fallback error: ${lastError.message}`
AllFailedError(p, primaryError, lastError) ==
    [kind |-> "all_failed", provider |-> p, detail |-> "", primaryMsg |-> <<primaryError>>, lastMsg |-> <<lastError>>]

\* a filter that keeps the primary among the fallbacks
FilterOut_KeepsPrimary(s, primaryAI) == s

\* Array.prototype.filter
RECURSIVE FilterOut(_, _)
FilterOut(s, primaryAI) ==
    IF s = <<>> THEN <<>>
    ELSE IF ToLower(Head(s)) # primaryAI
         THEN <<Head(s)>> \o FilterOut(Tail(s), primaryAI)
         ELSE FilterOut(Tail(s), primaryAI)

IdleAsk ==
    [pc |-> "idle", primaryAI |-> "", promptIsArray |-> FALSE, formatted |-> FALSE,
     usedAI |-> "", usedAsFallback |-> FALSE, fallbackOptions |-> <<>>, idx |-> 0,
     primaryError |-> <<>>, lastError |-> <<>>]

\* what the primary provider is called with
PrimaryPayload(primaryAI, formatted) ==
    IF primaryAI = "openrouter" /\ formatted THEN "formattedMessages" ELSE "prompt"

\* what fallback provider fallbackAI is called with
FallbackPayload(primaryAI, formatted, fallbackAI) ==
    IF primaryAI = "openrouter" /\ formatted /\ fallbackAI \in {"gemini", "colab"}
    THEN "simplifiedPrompt"
    ELSE IF fallbackAI = "openrouter" /\ formatted THEN "formattedMessages"
    ELSE "prompt"

\* the shape of what buildPrompt returns for a provider: the list of
\* role-tagged turns of buildOpenRouterPrompt, or the text of buildTextPrompt
buildPrompt(provider) == IF provider = "openrouter" THEN "turns" ELSE "text"

\* the shape of a payload: formattedMessages is the list formatChatMessages
\* built, simplifiedPrompt the text of convertMessagesToSimplePrompt, and
\* prompt is whatever the caller passed
PayloadShape(payload, promptIsArray) ==
    IF payload = "formattedMessages" THEN "turns"
    ELSE IF payload = "simplifiedPrompt" THEN "text"
    ELSE IF promptIsArray THEN "turns" ELSE "text"

\* a provider call that has been started and not yet answered
PendingCall(p, payload, asFallback) ==
    [provider |-> p, payload |-> payload, asFallback |-> asFallback,
     done |-> FALSE, ok |-> FALSE, text |-> "", error |-> <<>>]

\* the throw of line 496: the error reaches the caller
\* (cs, rs: the calls made and the errors raised by this invocation so far)
Throw(a, err, cs, rs) ==
    /\ ask' = [a EXCEPT !.pc = "thrown"]
    /\ raised' = Append(rs, err)
    /\ result' = <<>>
    /\ calls' = cs

\* the return of lines 408 and 477
Return(a, response, cs, rs) ==
    /\ ask' = [a EXCEPT !.pc = "returned"]
    /\ result' = <<[response |-> response, provider |-> a.usedAI, wasFallback |-> a.usedAsFallback]>>
    /\ raised' = rs
    /\ calls' = cs

\* one iteration of the loop over fallbackOptions (lines 437-472), up to its await
TryFallback(a, i, cs, rs) ==
    IF i > Len(a.fallbackOptions)
    THEN Throw([a EXCEPT !.idx = i],
               AllFailedError(a.primaryAI, a.primaryError[1], a.lastError[1]), cs, rs)
    ELSE LET fallbackAI == a.fallbackOptions[i]
             b == [a EXCEPT !.idx = i, !.usedAI = fallbackAI, !.usedAsFallback = TRUE]
         IN IF fallbackAI \in Providers
            THEN /\ ask' = [b EXCEPT !.pc = "fallback"]
                 /\ calls' = Append(cs, PendingCall(fallbackAI,
                                       FallbackPayload(a.primaryAI, a.formatted, fallbackAI), TRUE))
                 /\ result' = <<>>
                 /\ raised' = rs
            ELSE \* no branch matches: response stays undefined and is returned
                 Return(b, Undefined, cs, rs)

\* a catch that goes on to the fallbacks without looking at FALLBACK_ENABLED
PrimaryFailed_IgnoresFlag(a, primaryError, cs, rs) ==
    LET b == [a EXCEPT !.primaryError = <<primaryError>>]
    IN IF Len(settings.FALLBACK_ORDER) = 0
       THEN Throw(b, NoFallbacksConfiguredError(a.primaryAI), cs, rs)
       ELSE LET fallbackOptions == FilterOut(settings.FALLBACK_ORDER, a.primaryAI)
            IN IF Len(fallbackOptions) = 0
               THEN Throw(b, NoOtherFallbacksError(a.primaryAI), cs, rs)
               ELSE TryFallback([b EXCEPT !.fallbackOptions = fallbackOptions,
                                          !.lastError = <<primaryError>>], 1, cs, rs)

\* the catch of the primary attempt (lines 413-434) and the first iteration
PrimaryFailed(a, primaryError, cs, rs) ==
    LET b == [a EXCEPT !.primaryError = <<primaryError>>]
    IN IF ~settings.FALLBACK_ENABLED
       THEN Throw(b, primaryError, cs, rs)
       ELSE IF Len(settings.FALLBACK_ORDER) = 0
       THEN Throw(b, NoFallbacksConfiguredError(a.primaryAI), cs, rs)
       ELSE LET fallbackOptions == FilterOut(settings.FALLBACK_ORDER, a.primaryAI)
            IN IF Len(fallbackOptions) = 0
               THEN Throw(b, NoOtherFallbacksError(a.primaryAI), cs, rs)
               ELSE TryFallback([b EXCEPT !.fallbackOptions = fallbackOptions,
                                          !.lastError = <<primaryError>>], 1, cs, rs)

\* the body of askAI, lines 363-403, up to the await of the primary provider
CallAskAI(promptIsArray, hasChatHistory) ==
    /\ LET primaryAI == ToLower(settings.PRIMARY_AI)
           formatted == primaryAI = "openrouter" /\ ~promptIsArray /\ hasChatHistory
           a == [IdleAsk EXCEPT !.primaryAI = primaryAI, !.promptIsArray = promptIsArray,
                                !.formatted = formatted, !.usedAI = primaryAI]
       IN IF primaryAI \in Providers
          THEN /\ ask' = [a EXCEPT !.pc = "primary"]
               /\ calls' = <<PendingCall(primaryAI, PrimaryPayload(primaryAI, formatted), FALSE)>>
               /\ result' = <<>>
               /\ raised' = <<>>
          ELSE PrimaryFailed(a, UnknownProviderError(primaryAI), <<>>, <<>>)
    /\ UNCHANGED settings

\* askAI is called while no other invocation of it is in flight
AskAI(promptIsArray, hasChatHistory) ==
    /\ ask.pc \in {"idle", "returned", "thrown"}
    /\ CallAskAI(promptIsArray, hasChatHistory)

\* the call in flight, answered
Answered(c, ok, text, error) ==
    [c EXCEPT !.done = TRUE, !.ok = ok, !.text = text, !.error = error]

\* the primary provider answers with text t: lines 405-412
PrimarySucceeds(t) ==
    /\ ask.pc = "primary"
    /\ Return(ask, t, [calls EXCEPT ![Len(calls)] = Answered(@, TRUE, t, <<>>)], raised)
    /\ UNCHANGED settings

\* the primary provider throws: lines 413-434
PrimaryFails(k) ==
    /\ ask.pc = "primary"
    /\ LET err == ProviderError(ask.primaryAI, k)
       IN PrimaryFailed(ask, err, [calls EXCEPT ![Len(calls)] = Answered(@, FALSE, "", <<err>>)], raised)
    /\ UNCHANGED settings

\* the fallback provider in flight answers with text t: lines 474-481
FallbackSucceeds(t) ==
    /\ ask.pc = "fallback"
    /\ Return(ask, t, [calls EXCEPT ![Len(calls)] = Answered(@, TRUE, t, <<>>)], raised)
    /\ UNCHANGED settings

\* the fallback provider in flight throws: lines 482-491
FallbackFails(k) ==
    /\ ask.pc = "fallback"
    /\ LET err == ProviderError(ask.usedAI, k)
       IN TryFallback([ask EXCEPT !.lastError = <<err>>], ask.idx + 1,
                      [calls EXCEPT ![Len(calls)] = Answered(@, FALSE, "", <<err>>)], raised)
    /\ UNCHANGED settings

\* the dashboard's changeAIProvider command
ChangeAIProvider(provider) ==
    /\ provider \in {"openrouter", "chutes", "gemini", "colab"}
    /\ provider # settings.PRIMARY_AI
    /\ settings' = [settings EXCEPT !.PRIMARY_AI = provider]
    /\ UNCHANGED <<ask, calls, result, raised>>

InitAI ==
    /\ ask = IdleAsk
    /\ calls = <<>>
    /\ result = <<>>
    /\ raised = <<>>

(***************************************************************************)
(* Bounds of the exploration                                               *)
(***************************************************************************)

\* number of handleMessage calls explored
MaxHandled == 3

\* number of handleMessage calls explored in the runs of the gate
MaxGateHandled == 2

\* number of short and of long steps of the clock explored
MaxShortSteps == 4

MaxLongSteps == 1

\* calls of the store functions that change files in a run of the stores
MaxStoreCalls == 2

\* invocations of processUserMessage in a run of the flow
MaxFlows == 2

\* handleMessage calls of the older batcher in a run
MaxUserHandled == 2

\* handleMessage calls in a run of the batcher with a fair clock
MaxFairHandled == 2

(***************************************************************************)
(* Settings                                                                *)
(***************************************************************************)

MESSAGE_BUFFER_TIMEOUT == 3000

MIN_TYPING_DELAY == 2000

MAX_TYPING_DELAY == 5000

ACTIVE_HOURS_START == 7

ACTIVE_HOURS_END == 24

MAX_MESSAGES_PER_HOUR == 50

\* the keyword "cat", as the characters of the string
KwCat == <<"c", "a", "t">>

\* the alias "server", as the characters of the string
AliasServer == <<"s", "e", "r", "v", "e", "r">>

\* an entry of ALLOWED_SERVERS
ServerConfig(id, respondToAll, keywords, ignore) ==
    [id |-> id, name |-> "Lumis", aliases |-> <<AliasServer, AliasServer>>,
     respond_to_all |-> respondToAll, keyword_triggers |-> keywords, ignore_channels |-> ignore]

\* settings.js as it is in the repository (server s1 stands for its one entry,
\* the keyword cat for its keywords)
DefaultSettings ==
    [PRIMARY_AI |-> "gemini", FALLBACK_ENABLED |-> TRUE,
     FALLBACK_ORDER |-> <<"openrouter", "chutes", "gemini">>,
     ENABLE_SERVER_SUPPORT |-> TRUE, ENABLE_RANDOM_IGNORE |-> TRUE,
     ACTIVE_HOURS_START |-> ACTIVE_HOURS_START, ACTIVE_HOURS_END |-> ACTIVE_HOURS_END,
     ALLOWED_SERVERS |-> <<ServerConfig("s1", FALSE, <<KwCat>>, <<"bot-spam", "admin-only">>)>>]

(***************************************************************************)
(* Time                                                                    *)
(***************************************************************************)

MinuteMs == 60000

HourMs == 3600000

DayMs == 86400000

\* Date.prototype.getHours
GetHours(t) == (t \div HourMs) % 24

(***************************************************************************)
(* Memory files (src/utils/memory.js)                                      *)
(***************************************************************************)

Users == {"u1"}

Servers == {"s1", "s2"}

\* "dm" is the private store of a user, a server id the store of that user
\* in that server
Scopes == {"dm"} \cup Servers

\* the agent roles that have stores on disk, and the role of the running agent
Roles == {"himari", "rudra"}

BotRole == "himari"

\* the users that have stores on disk
StoreUsers == Users \cup {"u2"}

Identities == Roles \X StoreUsers \X Scopes

\* path.join(MEMORY_ROOT, botRole, userId, 'memory.json'), as path segments
DMMemoryPath(botRole, userId) == <<"memory", botRole, userId, "memory.json">>

\* path.join(MEMORY_ROOT, botRole, userId, 'servers', serverId, 'memory.json')
ServerUserMemoryPath(botRole, userId, serverId) ==
    <<"memory", botRole, userId, "servers", serverId, "memory.json">>

\* path.join(SERVERS_ROOT, serverId, 'memory.json')
ServerMemoryPath(serverId) == <<"servers", serverId, "memory.json">>

\* the memory.json of an identity
MemoryPath(botRole, userId, scope) ==
    IF scope = "dm" THEN DMMemoryPath(botRole, userId)
    ELSE ServerUserMemoryPath(botRole, userId, scope)

\* path.join('memory', botRole, 'ai_mood.json')
MoodPath(botRole) == <<"memory", botRole, "ai_mood.json">>

MemoryPaths ==
    {MemoryPath(i[1], i[2], i[3]) : i \in Identities} \cup {ServerMemoryPath(sv) : sv \in Servers}
        \cup {MoodPath(r) : r \in Roles}

\* the directory of a file: its path without the file name
DirectoryOf(path) == SubSeq(path, 1, Len(path) - 1)

\* the directories the store functions work in
AllDirectories == {DirectoryOf(p) : p \in MemoryPaths \ {MoodPath(r) : r \in Roles}}

\* the directories on the way to a directory, itself included
Ancestors(dirPath) == {d \in AllDirectories : Len(d) <= Len(dirPath) /\ d = SubSeq(dirPath, 1, Len(d))}

\* ensureDirectoryExists: the directories after it, and whether it threw.
\* fs.mkdirSync(dirPath, {recursive: true}) makes the directory and the
\* missing ones on the way to it, or throws (no permission, a read-only or
\* full disk, a file in the way)
ensureDirectoryExists(dirs, dirPath, mkdirOk) ==
    IF dirPath \in dirs THEN [dirs |-> dirs, threw |-> FALSE]
    ELSE IF mkdirOk THEN [dirs |-> dirs \cup Ancestors(dirPath), threw |-> FALSE]
    ELSE [dirs |-> dirs, threw |-> TRUE]

NoMemoryFiles == [p \in MemoryPaths |-> <<>>]

createDefaultMemory ==
    [facts |-> <<>>, trustLevel |-> 5, romanticLevel |-> 0, censorshipLevel |-> 8,
     mood |-> "neutral", energy |-> "normal"]

\* the default of loadServerMemory
DefaultServerMemory == [facts |-> <<>>, mood |-> "neutral", energy |-> "normal"]

Digits == <<"0", "1", "2", "3", "4", "5", "6", "7", "8", "9">>

\* the decimal digits of a natural number
RECURSIVE NatToText(_)
NatToText(n) ==
    IF n < 10 THEN <<Digits[n + 1]>>
    ELSE NatToText(n \div 10) \o <<Digits[(n % 10) + 1]>>

\* a number as JSON.stringify writes it
NumberToText(n) == IF n < 0 THEN <<"-">> \o NatToText(0 - n) ELSE NatToText(n)

DigitValue(d) == CHOOSE v \in 0..9 : Digits[v + 1] = d

RECURSIVE TextToNat(_)
TextToNat(t) ==
    IF Len(t) = 1 THEN DigitValue(t[1])
    ELSE 10 * TextToNat(SubSeq(t, 1, Len(t) - 1)) + DigitValue(t[Len(t)])

\* a number as JSON.parse reads it
TextToNumber(t) == IF t[1] = "-" THEN 0 - TextToNat(Tail(t)) ELSE TextToNat(t)

NumberKeys == {"trustLevel", "romanticLevel", "censorshipLevel"}

\* a stringify that leaves the facts out
JSONStringify_DropsFacts(value) ==
    [key \in DOMAIN value |->
        IF key \in NumberKeys THEN NumberToText(value[key])
        ELSE IF key = "facts" THEN <<>> ELSE value[key]]

\* JSON.stringify(value, null, 2) of a memory object: the text of each property
JSONStringify(value) ==
    [key \in DOMAIN value |->
        IF key \in NumberKeys THEN NumberToText(value[key]) ELSE value[key]]

\* a file whose text stops in the middle
TruncatedText == [truncated |-> TRUE]

\* JSON.parse: the object, or <<>> for the SyntaxError it throws
JSONParse(text) ==
    IF "truncated" \in DOMAIN text THEN <<>>
    ELSE <<[key \in DOMAIN text |->
              IF key \in NumberKeys THEN TextToNumber(text[key]) ELSE text[key]]>>

\* the load functions: the parsed file, or the default when there is no file
\* or its text does not parse
LoadFile(files, path, default) ==
    IF files[path] = <<>> THEN default
    ELSE IF JSONParse(files[path][1]) = <<>> THEN default
    ELSE JSONParse(files[path][1])[1]

loadDMMemory(botRole, userId) ==
    LoadFile(memoryFiles, DMMemoryPath(botRole, userId), createDefaultMemory)

loadServerUserMemory(botRole, userId, serverId) ==
    LoadFile(memoryFiles, ServerUserMemoryPath(botRole, userId, serverId), createDefaultMemory)

loadServerMemory(files, serverId) == LoadFile(files, ServerMemoryPath(serverId), DefaultServerMemory)

\* a save that leaves the role out of the path
SaveFile_OneRole(files, path, value, writeOk) ==
    IF writeOk
    THEN [files EXCEPT ![IF path[1] = "memory" THEN [path EXCEPT ![2] = BotRole] ELSE path] =
                          <<JSONStringify(value)>>]
    ELSE files

\* the save functions: the files after fs.writeFileSync(path, JSON.stringify(..)),
\* which either writes the file or throws an error that the function logs
SaveFile(files, path, value, writeOk) ==
    IF writeOk THEN [files EXCEPT ![path] = <<JSONStringify(value)>>] ELSE files

\* lines 238-244 of handleMessage: the memory of the author in the scope of the message
LoadMemory(userId, scope) ==
    IF scope = "dm" THEN loadDMMemory(BotRole, userId)
    ELSE loadServerUserMemory(BotRole, userId, scope)

\* shouldBotRespond without a mention: the probability (in hundredths) that
\* Math.random() is compared with
RespondThreshold(trustLevel) ==
    IF trustLevel >= 8 THEN 80
    ELSE IF trustLevel >= 6 THEN 50
    ELSE IF trustLevel >= 4 THEN 20
    ELSE 5

\* shouldIgnoreMessage: the probability (in hundredths) of ignoring
IgnoreThreshold(mem) ==
    LET trustLevel == IF mem.trustLevel # 0 THEN mem.trustLevel ELSE 5
    IN IF mem.energy \in {"tired", "sleepy"} THEN 30
       ELSE IF trustLevel < 3 THEN 40
       ELSE 10

\* the values of Math.random() explored, in hundredths
Draws == {0, 5, 20, 30, 50, 80}

(***************************************************************************)
(* Engagement gate (src/utils/messageHandler.js)                           *)
(***************************************************************************)

\* String.prototype.toLowerCase on one character
LowerChar(c) ==
    CASE c = "C" -> "c"
      [] c = "A" -> "a"
      [] c = "T" -> "t"
      [] c = "L" -> "l"
      [] OTHER -> c

LowerString(str) == [i \in 1..Len(str) |-> LowerChar(str[i])]

\* String.prototype.includes
Includes(str, sub) ==
    \E i \in 0..(Len(str) - Len(sub)) : \A j \in 1..Len(sub) : str[i + j] = sub[j]

\* containsKeyword
containsKeyword(content, keywords) ==
    IF Len(content) = 0 \/ Len(keywords) = 0 THEN FALSE
    ELSE \E k \in 1..Len(keywords) : Includes(LowerString(content), LowerString(keywords[k]))

\* Array.prototype.includes on a list of strings
ListHas(list, x) == \E i \in 1..Len(list) : list[i] = x

\* an away test that never finds the agent away
AwayNow_Never == FALSE

\* the away test of lines 63-66
AwayNow ==
    aiStatus.isAway /\ aiStatus.awayUntil # <<>> /\ now < aiStatus.awayUntil[1]

\* the three triggers of lines 99-115; platform tells what the message
\* mentions and what the channel's message cache holds
isMentioned(platform) == platform.mentionsBot

hasKeywordTrigger(message, serverConfig) ==
    Len(serverConfig.keyword_triggers) > 0 /\ containsKeyword(message.content, serverConfig.keyword_triggers)

isReplyToBot(message, platform) ==
    /\ message.reference # <<>>
    /\ platform.referenceCached
    /\ platform.referenceByBot

wasDirectlyEngaged(message, platform, serverConfig) ==
    isMentioned(platform) \/ hasKeywordTrigger(message, serverConfig) \/ isReplyToBot(message, platform)

\* the trust level the gate works with (line 97): userMemory.trustLevel || 5
GateTrustLevel(userMemory) ==
    IF userMemory.trustLevel # 0 THEN userMemory.trustLevel ELSE 5

\* the value shouldRespondToMessage returns, the branch that returned it and
\* the probability Math.random() was compared with, if it was called
Decision(respond, cause, threshold) ==
    [respond |-> respond, cause |-> cause, threshold |-> threshold]

\* a gate in which a trigger is not enough in respond-to-all mode
RespondToAllDecision_AlwaysDraws(trustLevel, engaged, r) ==
    Decision(r < RespondThreshold(trustLevel), "trust_draw", <<RespondThreshold(trustLevel)>>)

\* shouldBotRespond(trustLevel, wasDirectlyEngaged), r being Math.random()
RespondToAllDecision(trustLevel, engaged, r) ==
    IF engaged THEN Decision(TRUE, "engaged", <<>>)
    ELSE Decision(r < RespondThreshold(trustLevel), "trust_draw", <<RespondThreshold(trustLevel)>>)

\* a gate that answers everything in a community that wants direct engagement
DirectOnlyDecision_Always(engaged) == Decision(TRUE, "direct_only", <<>>)

\* lines 127-131
DirectOnlyDecision(engaged) == Decision(engaged, "direct_only", <<>>)

\* shouldRespondToMessage(message, serverConfig, userMemory), r being the
\* value Math.random() returns if it is called
shouldRespondToMessage(message, platform, serverConfig, userMemory, r) ==
    IF AwayNow THEN Decision(FALSE, "away", <<>>)
    ELSE IF message.channelType = "DM"
    THEN IF settings.ENABLE_RANDOM_IGNORE /\ r < IgnoreThreshold(userMemory)
         THEN Decision(FALSE, "random_ignore", <<IgnoreThreshold(userMemory)>>)
         ELSE Decision(TRUE, "dm", IF settings.ENABLE_RANDOM_IGNORE
                                   THEN <<IgnoreThreshold(userMemory)>> ELSE <<>>)
    ELSE IF serverConfig = <<>> THEN Decision(FALSE, "not_configured", <<>>)
    ELSE IF ListHas(serverConfig[1].ignore_channels, ToLower(message.channelName))
    THEN Decision(FALSE, "ignored_channel", <<>>)
    ELSE IF serverConfig[1].respond_to_all
    THEN RespondToAllDecision(GateTrustLevel(userMemory),
                              wasDirectlyEngaged(message, platform, serverConfig[1]), r)
    ELSE DirectOnlyDecision(wasDirectlyEngaged(message, platform, serverConfig[1]))

(***************************************************************************)
(* Availability simulator (src/utils/messageHandler.js)                    *)
(***************************************************************************)

InitialCounter(t) == [hourly |-> 0, lastReset |-> t]

\* initServerCounter
initServerCounter(counters, serverId) ==
    IF counters.servers[serverId] = <<>>
    THEN [counters EXCEPT !.servers[serverId] = <<InitialCounter(now)>>]
    ELSE counters

\* lines 148-156: the Date awayUntil is set to when the hour is outside the
\* active window (setHours and setMinutes keep the seconds of now)
SleepUntil(t) ==
    LET today == (t - (t % DayMs)) + settings.ACTIVE_HOURS_START * HourMs + (t % MinuteMs)
    IN IF GetHours(t) < settings.ACTIVE_HOURS_START THEN today ELSE today + DayMs

\* a shouldGoAway that never resets the hourly counter
shouldGoAway_NeverResets(serverId) ==
    IF GetHours(now) < settings.ACTIVE_HOURS_START \/ GetHours(now) >= settings.ACTIVE_HOURS_END
    THEN [away |-> TRUE,
          status |-> [isAway |-> TRUE, awayReason |-> "time_to_sleep", awayUntil |-> <<SleepUntil(now)>>],
          counters |-> messageCounters]
    ELSE LET c1 == IF serverId # <<>> THEN initServerCounter(messageCounters, serverId[1])
                   ELSE messageCounters
             counter == IF serverId # <<>> THEN c1.servers[serverId[1]][1] ELSE c1.global
             reset == counter
             c2 == IF serverId # <<>> THEN [c1 EXCEPT !.servers[serverId[1]] = <<reset>>]
                   ELSE [c1 EXCEPT !.global = reset]
         IN IF reset.hourly >= MAX_MESSAGES_PER_HOUR
            THEN [away |-> TRUE,
                  status |-> [isAway |-> TRUE, awayReason |-> "tired", awayUntil |-> <<now + 30 * MinuteMs>>],
                  counters |-> c2]
            ELSE [away |-> FALSE, status |-> aiStatus, counters |-> c2]

\* shouldGoAway(serverId): the value returned and the state it leaves
shouldGoAway(serverId) ==
    IF GetHours(now) < settings.ACTIVE_HOURS_START \/ GetHours(now) >= settings.ACTIVE_HOURS_END
    THEN [away |-> TRUE,
          status |-> [isAway |-> TRUE, awayReason |-> "time_to_sleep", awayUntil |-> <<SleepUntil(now)>>],
          counters |-> messageCounters]
    ELSE LET c1 == IF serverId # <<>> THEN initServerCounter(messageCounters, serverId[1])
                   ELSE messageCounters
             counter == IF serverId # <<>> THEN c1.servers[serverId[1]][1] ELSE c1.global
             reset == IF now - counter.lastReset >= HourMs
                      THEN InitialCounter(now) ELSE counter
             c2 == IF serverId # <<>> THEN [c1 EXCEPT !.servers[serverId[1]] = <<reset>>]
                   ELSE [c1 EXCEPT !.global = reset]
         IN IF reset.hourly >= MAX_MESSAGES_PER_HOUR
            THEN [away |-> TRUE,
                  status |-> [isAway |-> TRUE, awayReason |-> "tired", awayUntil |-> <<now + 30 * MinuteMs>>],
                  counters |-> c2]
            ELSE [away |-> FALSE, status |-> aiStatus, counters |-> c2]

\* incrementMessageCounter(serverId): the counters it leaves
incrementMessageCounter(serverId) ==
    LET c1 == [messageCounters EXCEPT !.global.hourly = @ + 1]
        c2 == IF serverId # <<>> THEN initServerCounter(c1, serverId[1]) ELSE c1
    IN IF serverId # <<>>
       THEN [c2 EXCEPT !.servers[serverId[1]][1].hourly = @ + 1]
       ELSE c2

\* isEnergyLow(serverId): counter.hourly > MAX_MESSAGES_PER_HOUR * 0.8
isEnergyLow(serverId) ==
    LET counter == IF serverId # <<>> /\ messageCounters.servers[serverId[1]] # <<>>
                   THEN messageCounters.servers[serverId[1]][1]
                   ELSE messageCounters.global
    IN counter.hourly * 10 > MAX_MESSAGES_PER_HOUR * 8

\* delays are counted in units of 1/7500 ms, in which the divisions by the
\* typing speeds, the jitter in hundredths and the factor 0.6 are exact
UnitsPerMs == 7500

Min(a, b) == IF a <= b THEN a ELSE b

Max(a, b) == IF a >= b THEN a ELSE b

\* promptBuilder.getTypingDelay(text, energy), in units
getTypingDelay(text, energy) ==
    LET speed == IF energy \in {"tired", "sleepy"} THEN 20
                 ELSE IF energy = "energetic" THEN 40
                 ELSE 30
    IN Min(Max((Len(text) * 1000 * UnitsPerMs) \div speed, 2 * 1000 * UnitsPerMs),
           5 * 1000 * UnitsPerMs)

\* getRealisticTypingDelay(text, character, serverId), in units, when
\* Math.random() returns random / 100
getRealisticTypingDelay(text, serverId, random) ==
    LET energy == IF isEnergyLow(serverId) THEN "tired" ELSE "normal"
        baseDelay == getTypingDelay(text, energy)
        variance == (baseDelay \div 500) * (random * 2 - 100)
        calculatedDelay == Min(Max(baseDelay + variance, MIN_TYPING_DELAY * UnitsPerMs),
                               MAX_TYPING_DELAY * UnitsPerMs)
    IN Min((calculatedDelay * 6) \div 10, 2500 * UnitsPerMs)

NotAway == [isAway |-> FALSE, awayReason |-> "", awayUntil |-> <<>>]

\* a reset that clears the flag only
ResetAwayStatus_KeepsUntil ==
    /\ aiStatus # NotAway
    /\ aiStatus' = [aiStatus EXCEPT !.isAway = FALSE]
    /\ UNCHANGED <<settings, aiVars, now, messageCounters, messageBuffers, timers, memoryFiles,
                   delivered, sent, nHandled, lastGate>>

\* resetAwayStatus
ResetAwayStatus ==
    /\ aiStatus # NotAway
    /\ aiStatus' = NotAway
    /\ UNCHANGED <<settings, aiVars, now, messageCounters, messageBuffers, timers, memoryFiles,
                   delivered, sent, nHandled, lastGate>>

(***************************************************************************)
(* Message batcher (src/utils/messageHandler.js)                           *)
(***************************************************************************)

BufferKey(userId, channelId) == <<userId, channelId>>

\* a join that keeps the content of the first message only
JoinContents_FirstOnly(messages) == messages[1].content

\* Array.prototype.join("\n") over the contents of the messages
RECURSIVE JoinContents(_)
JoinContents(messages) ==
    IF Len(messages) = 0 THEN <<>>
    ELSE IF Len(messages) = 1 THEN messages[1].content
    ELSE messages[1].content \o <<"\n">> \o JoinContents(Tail(messages))

\* the combined message of lines 318-345
CombinedMessage(buffer) ==
    LET messages == buffer.messages
        firstMessage == messages[1]
        lastMessage == messages[Len(messages)]
    IN [id |-> firstMessage.id,
        authorId |-> firstMessage.authorId,
        reference |-> firstMessage.reference,
        content |-> JoinContents(messages),
        attachments |-> lastMessage.attachments,
        isBatched |-> Len(messages) > 1,
        originalMessages |-> messages,
        channelId |-> firstMessage.channelId,
        channelType |-> firstMessage.channelType,
        guild |-> firstMessage.guild,
        serverId |-> buffer.serverId,
        counted |-> FALSE]

\* a bufferMessage that arms the new timeout without clearing the pending one
bufferMessage_KeepsOldTimer(message) ==
    LET bufferKey == BufferKey(message.authorId, message.channelId)
        existing == IF messageBuffers[bufferKey] # <<>> THEN messageBuffers[bufferKey][1]
                    ELSE [messages |-> <<>>, timer |-> <<>>, serverId |-> message.guild, startTime |-> now]
        newTimer == [key |-> bufferKey, due |-> now + MESSAGE_BUFFER_TIMEOUT]
    IN /\ messageBuffers' = [messageBuffers EXCEPT ![bufferKey] =
                               <<[existing EXCEPT !.messages = Append(@, message),
                                                  !.timer = <<newTimer>>]>>]
       /\ timers' = timers \cup {newTimer}

\* bufferMessage(message, processFn): the buffers and the timers it leaves
bufferMessage(message) ==
    LET bufferKey == BufferKey(message.authorId, message.channelId)
        existing == IF messageBuffers[bufferKey] # <<>> THEN messageBuffers[bufferKey][1]
                    ELSE [messages |-> <<>>, timer |-> <<>>, serverId |-> message.guild, startTime |-> now]
        newTimer == [key |-> bufferKey, due |-> now + MESSAGE_BUFFER_TIMEOUT]
        cleared == IF existing.timer # <<>> THEN timers \ {existing.timer[1]} ELSE timers
    IN /\ messageBuffers' = [messageBuffers EXCEPT ![bufferKey] =
                               <<[existing EXCEPT !.messages = Append(@, message),
                                                  !.timer = <<newTimer>>]>>]
       /\ timers' = cleared \cup {newTimer}

\* a flush that hands the combined message over and keeps the buffer
processBatchedMessages_KeepsBuffer(bufs, log, bufferKey) ==
    IF bufs[bufferKey] = <<>> THEN [buffers |-> bufs, calls |-> log]
    ELSE IF Len(bufs[bufferKey][1].messages) > 0
    THEN [buffers |-> bufs, calls |-> Append(log, CombinedMessage(bufs[bufferKey][1]))]
    ELSE [buffers |-> bufs, calls |-> log]

\* processBatchedMessages(bufferKey, processFn) on the buffers bufs, log being
\* the calls of processFn so far: the buffers and the calls it leaves
processBatchedMessages(bufs, log, bufferKey) ==
    IF bufs[bufferKey] = <<>> THEN [buffers |-> bufs, calls |-> log]
    ELSE IF Len(bufs[bufferKey][1].messages) > 0
    THEN [buffers |-> [bufs EXCEPT ![bufferKey] = <<>>],
          calls |-> Append(log, CombinedMessage(bufs[bufferKey][1]))]
    ELSE [buffers |-> bufs, calls |-> log]

\* a timeout whose callback deletes the buffer without calling processFn
TimerFires_DropsBatch(t) ==
    /\ t \in timers
    /\ now >= t.due
    /\ timers' = timers \ {t}
    /\ messageBuffers' = [messageBuffers EXCEPT ![t.key] = <<>>]
    /\ UNCHANGED <<settings, aiVars, now, aiStatus, messageCounters, memoryFiles,
                   sent, nHandled, lastGate, delivered>>

\* the timeout t fires and runs its callback
TimerFires(t) ==
    /\ t \in timers
    /\ now >= t.due
    /\ timers' = timers \ {t}
    /\ messageBuffers' = processBatchedMessages(messageBuffers, delivered, t.key).buffers
    /\ delivered' = processBatchedMessages(messageBuffers, delivered, t.key).calls
    /\ UNCHANGED <<settings, aiVars, now, aiStatus, messageCounters, memoryFiles,
                   sent, nHandled, lastGate>>

\* time passes
Advance(d) ==
    /\ now' = now + d
    /\ UNCHANGED <<settings, aiVars, aiStatus, messageCounters, messageBuffers, timers,
                   memoryFiles, delivered, sent, nHandled, lastGate>>

\* a lookup that takes the first entry whatever its id
FindServerConfig_AnyId(serverId) ==
    IF settings.ALLOWED_SERVERS = <<>> THEN <<>> ELSE <<settings.ALLOWED_SERVERS[1]>>

\* ALLOWED_SERVERS.find(s => s.id === serverId)
FindServerConfig(serverId) ==
    LET hits == SelectSeq(settings.ALLOWED_SERVERS, LAMBDA c : c.id = serverId)
    IN IF hits = <<>> THEN <<>> ELSE <<hits[1]>>

\* what lastGate records of a handleMessage call: the message, the memory
\* loaded for it, what shouldRespondToMessage returned and how the call ended
GateRecord(message, platform, userMemory, decision, outcome) ==
    <<[message |-> message, platform |-> platform, userMemory |-> userMemory,
       decision |-> decision, outcome |-> outcome]>>

\* Math.ceil((until - Date.now()) / (1000 * 60))
MinutesUntil(until) == (until - now + (MinuteMs - 1)) \div MinuteMs

\* an excuse that is the same for every reason
getAwayMessage_Generic(reason, until, pick) == <<"I'll be back in a while!">>

\* getAwayMessage(reason, until, character), pick being
\* Math.floor(Math.random() * options.length)
getAwayMessage(reason, until, pick) ==
    IF reason = "time_to_sleep"
    THEN <<"I'm getting sleepy, gonna head to bed. Talk to you in the morning!",
           "It's my bedtime, catch you tomorrow!",
           "Need to get some rest now. Message you later!",
           "*yawns* Getting really tired, need to sleep. Ttyl!">>[pick + 1]
    ELSE IF reason = "tired"
    THEN <<(<<"I need a quick break! I'll be back in about ">> \o NumberToText(MinutesUntil(until))
               \o <<" minutes.">>),
           (<<"Gonna take a little breather for ">> \o NumberToText(MinutesUntil(until))
               \o <<" mins. Talk soon!">>),
           (<<"Need to step away for a bit (~">> \o NumberToText(MinutesUntil(until))
               \o <<" mins). BRB!">>),
           <<"Taking a short break, message you in a bit!">>>>[pick + 1]
    ELSE <<"I'll be back in a while!">>

\* handleMessage(message, processFn, character), r being Math.random() in
\* the gate and pick the option drawn for the excuse (one value of r and of
\* pick stands for all when the call does not draw)
HandleMessage(msg, platform, r, pick) ==
    LET message == [msg EXCEPT !.id = nHandled + 1, !.arrived = now]
        serverId == message.guild
        lookedUp == serverId # <<>> /\ settings.ENABLE_SERVER_SUPPORT
        serverConfig == IF lookedUp THEN FindServerConfig(serverId[1]) ELSE <<>>
        userMemory == LoadMemory(message.authorId, IF serverId # <<>> THEN serverId[1] ELSE "dm")
        decision == shouldRespondToMessage(message, platform, serverConfig, userMemory, r)
        drawn == decision.threshold # <<>>
        goAway == shouldGoAway(serverId)
    IN /\ nHandled' = nHandled + 1
       /\ (message.authorBot \/ (lookedUp /\ serverConfig = <<>>) \/ ~drawn) => r = 0
       /\ (message.authorBot \/ (lookedUp /\ serverConfig = <<>>) \/ ~decision.respond
              \/ ~goAway.away) => pick = 0
       /\ UNCHANGED <<settings, aiVars, now, memoryFiles, delivered>>
       /\ IF message.authorBot
          THEN /\ lastGate' = GateRecord(message, platform, <<>>, <<>>, "bot")
               /\ UNCHANGED <<aiStatus, messageCounters, messageBuffers, timers, sent>>
          ELSE IF lookedUp /\ serverConfig = <<>>
          THEN /\ lastGate' = GateRecord(message, platform, <<>>, <<>>, "not_allowed")
               /\ UNCHANGED <<aiStatus, messageCounters, messageBuffers, timers, sent>>
          ELSE IF ~decision.respond
          THEN /\ lastGate' = GateRecord(message, platform, <<userMemory>>, <<decision>>, "declined")
               /\ UNCHANGED <<aiStatus, messageCounters, messageBuffers, timers, sent>>
          ELSE IF goAway.away
          THEN /\ lastGate' = GateRecord(message, platform, <<userMemory>>, <<decision>>, "excuse")
               /\ aiStatus' = goAway.status
               /\ messageCounters' = goAway.counters
               /\ sent' = Append(sent, [channelId |-> message.channelId, id |-> message.id,
                                        reason |-> goAway.status.awayReason,
                                        content |-> getAwayMessage(goAway.status.awayReason,
                                                                   goAway.status.awayUntil[1], pick)])
               /\ UNCHANGED <<messageBuffers, timers>>
          ELSE /\ lastGate' = GateRecord(message, platform, <<userMemory>>, <<decision>>, "buffered")
               /\ aiStatus' = goAway.status
               /\ messageCounters' = goAway.counters
               /\ bufferMessage(message)
               /\ UNCHANGED sent

\* the turn of delivered[i] has sent its response: processUserMessage calls
\* incrementMessageCounter with the server id it detected
ResponseCounted(i) ==
    /\ i \in 1..Len(delivered)
    /\ ~delivered[i].counted
    /\ LET message == delivered[i]
           serverId == IF message.guild # <<>> THEN message.guild
                       ELSE IF message.isBatched THEN message.serverId ELSE <<>>
       IN messageCounters' = incrementMessageCounter(serverId)
    /\ delivered' = [delivered EXCEPT ![i].counted = TRUE]
    /\ UNCHANGED <<settings, aiVars, now, aiStatus, messageBuffers, timers, memoryFiles,
                   sent, nHandled, lastGate>>

(***************************************************************************)
(* Inputs                                                                  *)
(***************************************************************************)

\* a step shorter than the batching window, and a long one
ShortStep == MESSAGE_BUFFER_TIMEOUT \div 2

LongStep == 30 * MinuteMs

\* the clock at the start: noon, and three seconds before the active window
Noon == 12 * HourMs

BeforeWake == 6 * HourMs + 59 * MinuteMs + 57000

ShortStepsTaken(start) == ((now - start) % LongStep) \div ShortStep

LongStepsTaken(start) == (now - start) \div LongStep

StartOf(t) == IF t >= Noon THEN Noon ELSE BeforeWake

CanAdvance(d) ==
    IF d = ShortStep THEN ShortStepsTaken(StartOf(now)) < MaxShortSteps
    ELSE LongStepsTaken(StartOf(now)) < MaxLongSteps

ChannelIds == {"dm1", "c1", "c2", "c3"}

ChannelType(c) == IF c = "dm1" THEN "DM" ELSE "GUILD_TEXT"

ChannelName(c) ==
    CASE c = "c1" -> "general"
      [] c = "c2" -> "Bot-Spam"
      [] c = "c3" -> "general"
      [] OTHER -> ""

ChannelGuild(c) ==
    CASE c = "c1" -> <<"s1">>
      [] c = "c2" -> <<"s1">>
      [] c = "c3" -> <<"s2">>
      [] OTHER -> <<>>

Keys == Users \X ChannelIds

Hi == <<"h", "i">>

Cat == <<"C", "A", "T">>

NoReference == <<>>

\* message.reference of a reply
Reference == <<[messageId |-> "r1"]>>

\* what the platform objects say about a message: whether it mentions the
\* agent, whether the replied-to message is in the channel's cache and
\* whether the agent wrote it
Platform(mentionsBot, referenceCached, referenceByBot) ==
    [mentionsBot |-> mentionsBot, referenceCached |-> referenceCached,
     referenceByBot |-> referenceByBot]

Plain == Platform(FALSE, FALSE, FALSE)

\* a message event of the platform (its id and the time of its arrival are
\* filled in when it is handled)
Message(authorBot, channelId, content, reference, attachments) ==
    [id |-> 0, arrived |-> 0, authorId |-> "u1", authorBot |-> authorBot, guild |-> ChannelGuild(channelId),
     channelId |-> channelId, channelType |-> ChannelType(channelId),
     channelName |-> ChannelName(channelId), content |-> content,
     reference |-> reference, attachments |-> attachments]

(***************************************************************************)
(* Memory extraction (processBatchedMemory) and the stores on disk         *)
(***************************************************************************)

\* the most facts a memory keeps
FactLimit == 30

\* the n-th fact string that holds the phrase `about`; facts about "user"
\* hold none of the phrases 'everyone', 'the server', 'the group'
Fact(about, n) == <<about, n>>

\* fact.includes('everyone') || fact.includes('the server') || fact.includes('the group')
IsGlobalFact(fact) == fact[1] \in {"everyone", "the server", "the group"}

\* the facts 1..k about a phrase, oldest first
FactsAbout(about, k) == [n \in 1..k |-> Fact(about, n)]

\* [...new Set(list)]: each element once, in the order of its first occurrence
RECURSIVE SetOrder(_)
SetOrder(list) ==
    IF list = <<>> THEN <<>>
    ELSE LET init == SetOrder(SubSeq(list, 1, Len(list) - 1))
             last == list[Len(list)]
         IN IF \E k \in 1..Len(init) : init[k] = last THEN init ELSE Append(init, last)

\* list.slice(-n)
SliceLast(list, n) == IF Len(list) <= n THEN list ELSE SubSeq(list, Len(list) - n + 1, Len(list))

\* a merge that keeps repeated facts
MergeFacts_KeepsRepeats(facts, added) == SliceLast(facts \o added, FactLimit)

\* [...new Set([...facts, ...added])].slice(-30)
MergeFacts(facts, added) == SliceLast(SetOrder(facts \o added), FactLimit)

\* the context note of a buffered message: "dm" for 'dm', the server id for
\* 'server:<id>'
BufferedMessage(context) == [context |-> context]

\* a filter that lets every message of the batch through
FilterBatch_KeepsAll(batch, contextToMatch) == batch

\* lines 498-501: the messages of the batch whose context is the one of the
\* update (every buffered message has a context)
FilterBatch(batch, contextToMatch) ==
    SelectSeq(batch, LAMBDA msg : msg.context = contextToMatch)

\* a processBatchedMemory that saves the loaded memory when nothing was extracted
processBatchedMemory_SavesAnyway(files, userId, batch, passedServerId, extracted, writeOk) ==
    LET contextInfo == batch[1]
        serverId == IF passedServerId # <<>> /\ contextInfo.context # passedServerId[1]
                    THEN (IF contextInfo.context = "dm" THEN <<>> ELSE <<contextInfo.context>>)
                    ELSE passedServerId
        contextToMatch == IF serverId # <<>> THEN serverId[1] ELSE "dm"
        path == MemoryPath(BotRole, userId, contextToMatch)
        userMemory == LoadFile(files, path, createDefaultMemory)
        filteredBatch == FilterBatch(batch, contextToMatch)
        updated == [userMemory EXCEPT !.facts = MergeFacts(@, extracted[1].facts),
                                      !.trustLevel = extracted[1].trustLevel,
                                      !.romanticLevel = extracted[1].romanticLevel,
                                      !.censorshipLevel = extracted[1].censorshipLevel]
        saved == SaveFile(files, path, updated, writeOk)
        serverMemory == loadServerMemory(saved, serverId[1])
        globalFacts == SelectSeq(extracted[1].facts, IsGlobalFact)
        shared == IF globalFacts # <<>>
                  THEN SaveFile(saved, ServerMemoryPath(serverId[1]),
                                [serverMemory EXCEPT !.facts = MergeFacts(@, globalFacts)], writeOk)
                  ELSE saved
    IN IF filteredBatch = <<>> THEN [files |-> files, path |-> path, outcome |-> "no messages", submitted |-> <<>>]
       ELSE IF extracted = <<>>
       THEN [files |-> SaveFile(files, path, userMemory, writeOk), path |-> path,
             outcome |-> "no extracted",
             submitted |-> filteredBatch]
       ELSE IF serverId = <<>> THEN [files |-> saved, path |-> path, outcome |-> "updated",
                                     submitted |-> filteredBatch]
       \* line 563 reads the undeclared name `messages`: a ReferenceError
       ELSE [files |-> shared, path |-> path, outcome |-> "threw", submitted |-> filteredBatch]

\* the whole of processBatchedMemory: the files it leaves and how it ended.
\* result is what extractFactsAndRatings returns for the filtered batch.
processBatchedMemory(files, userId, batch, passedServerId, extracted, writeOk) ==
    LET contextInfo == batch[1]
        serverId == IF passedServerId # <<>> /\ contextInfo.context # passedServerId[1]
                    THEN (IF contextInfo.context = "dm" THEN <<>> ELSE <<contextInfo.context>>)
                    ELSE passedServerId
        contextToMatch == IF serverId # <<>> THEN serverId[1] ELSE "dm"
        path == MemoryPath(BotRole, userId, contextToMatch)
        userMemory == LoadFile(files, path, createDefaultMemory)
        filteredBatch == FilterBatch(batch, contextToMatch)
        updated == [userMemory EXCEPT !.facts = MergeFacts(@, extracted[1].facts),
                                      !.trustLevel = extracted[1].trustLevel,
                                      !.romanticLevel = extracted[1].romanticLevel,
                                      !.censorshipLevel = extracted[1].censorshipLevel]
        saved == SaveFile(files, path, updated, writeOk)
        serverMemory == loadServerMemory(saved, serverId[1])
        globalFacts == SelectSeq(extracted[1].facts, IsGlobalFact)
        shared == IF globalFacts # <<>>
                  THEN SaveFile(saved, ServerMemoryPath(serverId[1]),
                                [serverMemory EXCEPT !.facts = MergeFacts(@, globalFacts)], writeOk)
                  ELSE saved
    IN IF filteredBatch = <<>> THEN [files |-> files, path |-> path, outcome |-> "no messages", submitted |-> <<>>]
       ELSE IF extracted = <<>> THEN [files |-> files, path |-> path, outcome |-> "no extracted",
             submitted |-> filteredBatch]
       ELSE IF serverId = <<>> THEN [files |-> saved, path |-> path, outcome |-> "updated",
                                     submitted |-> filteredBatch]
       \* line 563 reads the undeclared name `messages`: a ReferenceError
       ELSE [files |-> shared, path |-> path, outcome |-> "threw", submitted |-> filteredBatch]

\* the chat.json paths
DMChatPath(botRole, userId) == <<"memory", botRole, userId, "chat.json">>

ServerUserChatPath(botRole, userId, serverId) ==
    <<"memory", botRole, userId, "servers", serverId, "chat.json">>

ChatPath(botRole, userId, scope) ==
    IF scope = "dm" THEN DMChatPath(botRole, userId)
    ELSE ServerUserChatPath(botRole, userId, scope)

ChatPaths == {ChatPath(i[1], i[2], i[3]) : i \in Identities}

NoChatFiles == [p \in ChatPaths |-> <<>>]

\* createDefaultChat
createDefaultChat == <<>>

\* an entry of a transcript
ChatEntry(role, content, time, context) ==
    [role |-> role, content |-> content, time |-> time, context |-> context]

\* JSON.stringify(chat, null, 2): the entries with their time as text
ChatText(chat) ==
    [entries |-> [k \in 1..Len(chat) |-> [chat[k] EXCEPT !.time = NumberToText(@)]]]

\* the chat load functions: JSON.parse of the file, or the default when
\* there is no file or its text does not parse
LoadChatFile(files, path) ==
    IF files[path] = <<>> THEN createDefaultChat
    ELSE IF "truncated" \in DOMAIN files[path][1] THEN createDefaultChat
    ELSE [k \in 1..Len(files[path][1].entries) |->
             [files[path][1].entries[k] EXCEPT !.time = TextToNumber(@)]]

\* a save that appends the last two turns to the stored transcript
SaveChatFile_Merges(files, path, chat, writeOk) ==
    IF writeOk
    THEN [files EXCEPT ![path] = <<ChatText(LoadChatFile(files, path) \o SliceLast(chat, 2))>>]
    ELSE files

\* the chat save functions
SaveChatFile(files, path, chat, writeOk) ==
    IF writeOk THEN [files EXCEPT ![path] = <<ChatText(chat)>>] ELSE files

NoCall == [op |-> "none", n |-> 0]

\* messageBuffer.js after it is loaded, and a console without errors
InitReplyState ==
    /\ userBuffers = [u \in Users |-> <<>>]
    /\ fetching = {}
    /\ consoleErrors = <<>>

\* no invocation of processUserMessage yet
IdleFlow == [pc |-> "idle", n |-> 0]

InitBotState ==
    /\ flow = IdleFlow
    /\ extractionBuffers = [u \in Users |-> <<>>]
    /\ botState = [mood |-> "neutral", energy |-> "normal", isAway |-> FALSE, currentAction |-> "idle"]
    /\ activityLog = <<>>
    /\ replies = <<>>
    /\ emitted = <<>>
    /\ parked = <<>>
    /\ lastCall = NoCall
    /\ directories = AllDirectories
    /\ InitReplyState

InitBot ==
    /\ chatFiles = NoChatFiles
    /\ InitBotState

\* the frame of a call of the store functions
StoreFrame ==
    UNCHANGED <<settings, aiVars, now, aiStatus, messageCounters, messageBuffers, timers,
                delivered, sent, nHandled, lastGate, flow, extractionBuffers, botState,
                activityLog, replies, replyVars, emitted, parked>>

\* saveDMMemory / saveServerUserMemory (saveMemory is saveDMMemory):
\* ensureDirectoryExists outside the try, writeFileSync inside it
SaveMemory(botRole, userId, scope, memory, mkdirOk, writeOk) ==
    /\ lastCall.n < MaxStoreCalls
    /\ \A made \in {ensureDirectoryExists(directories, DirectoryOf(MemoryPath(botRole, userId, scope)), mkdirOk)} :
          /\ directories' = made.dirs
          /\ memoryFiles' = IF made.threw THEN memoryFiles
                            ELSE SaveFile(memoryFiles, MemoryPath(botRole, userId, scope), memory, writeOk)
          /\ lastCall' = [op |-> "saveMemory", n |-> lastCall.n + 1, key |-> <<botRole, userId, scope>>,
                          value |-> memory, ok |-> writeOk /\ ~made.threw, threw |-> made.threw]
    /\ UNCHANGED chatFiles
    /\ StoreFrame

\* saveDMChat / saveServerUserChat (saveChat is saveDMChat)
SaveChat(botRole, userId, scope, chat, mkdirOk, writeOk) ==
    /\ lastCall.n < MaxStoreCalls
    /\ \A made \in {ensureDirectoryExists(directories, DirectoryOf(ChatPath(botRole, userId, scope)), mkdirOk)} :
          /\ directories' = made.dirs
          /\ chatFiles' = IF made.threw THEN chatFiles
                          ELSE SaveChatFile(chatFiles, ChatPath(botRole, userId, scope), chat, writeOk)
          /\ lastCall' = [op |-> "saveChat", n |-> lastCall.n + 1, key |-> <<botRole, userId, scope>>,
                          value |-> chat, ok |-> writeOk /\ ~made.threw, threw |-> made.threw]
    /\ UNCHANGED memoryFiles
    /\ StoreFrame

\* loadDMMemory / loadServerUserMemory (loadMemory is loadDMMemory):
\* ensureDirectoryExists outside the try, readFileSync and JSON.parse inside
LoadMemoryCall(botRole, userId, scope, mkdirOk) ==
    /\ lastCall.op # "loadMemory"
    /\ \A made \in {ensureDirectoryExists(directories, DirectoryOf(MemoryPath(botRole, userId, scope)), mkdirOk)} :
          /\ directories' = made.dirs
          /\ lastCall' = [op |-> "loadMemory", n |-> lastCall.n, key |-> <<botRole, userId, scope>>,
                          value |-> IF made.threw THEN Undefined
                                    ELSE LoadFile(memoryFiles, MemoryPath(botRole, userId, scope),
                                                  createDefaultMemory),
                          threw |-> made.threw]
    /\ UNCHANGED <<memoryFiles, chatFiles>>
    /\ StoreFrame

\* loadDMChat / loadServerUserChat (loadChat is loadDMChat)
LoadChatCall(botRole, userId, scope, mkdirOk) ==
    /\ lastCall.op # "loadChat"
    /\ \A made \in {ensureDirectoryExists(directories, DirectoryOf(ChatPath(botRole, userId, scope)), mkdirOk)} :
          /\ directories' = made.dirs
          /\ lastCall' = [op |-> "loadChat", n |-> lastCall.n, key |-> <<botRole, userId, scope>>,
                          value |-> IF made.threw THEN Undefined
                                    ELSE LoadChatFile(chatFiles, ChatPath(botRole, userId, scope)),
                          threw |-> made.threw]
    /\ UNCHANGED <<memoryFiles, chatFiles>>
    /\ StoreFrame

\* loadServerMemory
LoadServerMemoryCall(serverId, mkdirOk) ==
    /\ lastCall.op # "loadServerMemory"
    /\ \A made \in {ensureDirectoryExists(directories, DirectoryOf(ServerMemoryPath(serverId)), mkdirOk)} :
          /\ directories' = made.dirs
          /\ lastCall' = [op |-> "loadServerMemory", n |-> lastCall.n, key |-> <<serverId>>,
                          value |-> IF made.threw THEN Undefined
                                    ELSE loadServerMemory(memoryFiles, serverId),
                          threw |-> made.threw]
    /\ UNCHANGED <<memoryFiles, chatFiles>>
    /\ StoreFrame

\* the default of getAIMood
DefaultMood == [mood |-> "neutral", energy |-> "normal"]

\* moodData.mood || 'neutral', moodData.energy || 'normal'
OrDefault(data, key) ==
    IF key \in DOMAIN data /\ data[key] # "" THEN data[key] ELSE DefaultMood[key]

\* getAIMood: all of it runs inside its try
getAIMood(files, botRole) ==
    IF files[MoodPath(botRole)] = <<>> THEN DefaultMood
    ELSE IF JSONParse(files[MoodPath(botRole)][1]) = <<>> THEN DefaultMood
    ELSE [mood |-> OrDefault(JSONParse(files[MoodPath(botRole)][1])[1], "mood"),
          energy |-> OrDefault(JSONParse(files[MoodPath(botRole)][1])[1], "energy")]

\* a call of getAIMood
GetAIMood(botRole) ==
    /\ lastCall.op # "getAIMood"
    /\ lastCall' = [op |-> "getAIMood", n |-> lastCall.n, key |-> <<botRole>>,
                    value |-> getAIMood(memoryFiles, botRole), threw |-> FALSE]
    /\ UNCHANGED <<memoryFiles, chatFiles, directories>>
    /\ StoreFrame

\* value || fallback for a numeric property: 0 and a missing property are falsy
OrNumber(data, key, fallback) ==
    IF key \in DOMAIN data /\ data[key] # 0 THEN data[key] ELSE fallback

\* data.facts || []
OrNoFacts(data) == IF "facts" \in DOMAIN data THEN data.facts ELSE <<>>

\* the initial combinedMemory of getCombinedPromptMemory
DefaultCombinedMemory ==
    [personalFacts |-> <<>>, serverUserFacts |-> <<>>, serverGlobalFacts |-> <<>>,
     trustLevel |-> 5, romanticLevel |-> 0, censorshipLevel |-> 8,
     userMood |-> "neutral", userEnergy |-> "normal",
     serverMood |-> "neutral", serverEnergy |-> "normal"]

\* the part of the view taken from a RelationshipMemory: lines 330-334, 346-350
WithLevelsOf(combinedMemory, userMemory) ==
    [combinedMemory EXCEPT !.trustLevel = OrNumber(userMemory, "trustLevel", 5),
                           !.romanticLevel = OrNumber(userMemory, "romanticLevel", 0),
                           !.censorshipLevel = OrNumber(userMemory, "censorshipLevel", 8),
                           !.userMood = OrDefault(userMemory, "mood"),
                           !.userEnergy = OrDefault(userMemory, "energy")]

\* lines 338-357: the part of the view taken from the stores of targetServerId
WithTarget(files, combinedMemory, botRole, userId, serverId, targetServerId) ==
    LET serverUserMemory == LoadFile(files, ServerUserMemoryPath(botRole, userId, targetServerId),
                                     createDefaultMemory)
        serverMemory == loadServerMemory(files, targetServerId)
    IN [(IF serverId # <<>> THEN WithLevelsOf(combinedMemory, serverUserMemory) ELSE combinedMemory)
           EXCEPT !.serverUserFacts = OrNoFacts(serverUserMemory),
                  !.serverGlobalFacts = OrNoFacts(serverMemory),
                  !.serverMood = OrDefault(serverMemory, "mood"),
                  !.serverEnergy = OrDefault(serverMemory, "energy")]

\* getCombinedPromptMemory(botRole, userId, serverId, mentionedServer) over
\* the files on disk, when none of its loads raises
getCombinedPromptMemory(files, botRole, userId, serverId, mentionedServer) ==
    LET dmMemory == LoadFile(files, DMMemoryPath(botRole, userId), createDefaultMemory)
        private == IF serverId = <<>>
                   THEN [WithLevelsOf(DefaultCombinedMemory, dmMemory)
                            EXCEPT !.personalFacts = OrNoFacts(dmMemory)]
                   ELSE DefaultCombinedMemory
        targetServerId == IF serverId # <<>> THEN serverId ELSE mentionedServer
    IN IF targetServerId # <<>>
       THEN WithTarget(files, private, botRole, userId, serverId, targetServerId[1])
       ELSE private

\* the directories the loads of getCombinedPromptMemory make sure of
ViewDirectories(botRole, userId, serverId, mentionedServer) ==
    (IF serverId = <<>> THEN {DirectoryOf(DMMemoryPath(botRole, userId))} ELSE {})
    \cup (IF serverId # <<>> \/ mentionedServer # <<>>
          THEN {DirectoryOf(ServerUserMemoryPath(botRole, userId,
                                (IF serverId # <<>> THEN serverId ELSE mentionedServer)[1])),
                DirectoryOf(ServerMemoryPath((IF serverId # <<>> THEN serverId ELSE mentionedServer)[1]))}
          ELSE {})

\* a call of getCombinedPromptMemory: it raises what the first
\* ensureDirectoryExists of its loads raises
GetCombinedPromptMemory(botRole, userId, serverId, mentionedServer, mkdirOk) ==
    /\ lastCall.op # "getCombinedPromptMemory"
    /\ \A needed \in {ViewDirectories(botRole, userId, serverId, mentionedServer)} :
          \A threw \in {~(needed \subseteq directories) /\ ~mkdirOk} :
             /\ directories' = IF threw THEN directories
                               ELSE directories \cup UNION {Ancestors(d) : d \in needed}
             /\ lastCall' = [op |-> "getCombinedPromptMemory", n |-> lastCall.n,
                             key |-> <<botRole, userId, serverId, mentionedServer>>,
                             value |-> IF threw THEN Undefined
                                       ELSE getCombinedPromptMemory(memoryFiles, botRole, userId,
                                                                    serverId, mentionedServer),
                             threw |-> threw]
    /\ UNCHANGED <<memoryFiles, chatFiles>>
    /\ StoreFrame

\* a call of processBatchedMemory for a user of the running agent
ProcessBatchedMemory(userId, batch, passedServerId, extracted, writeOk) ==
    /\ lastCall.n < MaxStoreCalls
    /\ LET done == processBatchedMemory(memoryFiles, userId, batch, passedServerId, extracted, writeOk)
       IN /\ memoryFiles' = done.files
          /\ lastCall' = [op |-> "processBatchedMemory", n |-> lastCall.n + 1, path |-> done.path,
                          serverId |-> passedServerId, result |-> extracted, ok |-> writeOk,
                          outcome |-> done.outcome, submitted |-> done.submitted]
    /\ UNCHANGED <<chatFiles, directories>>
    /\ StoreFrame

\* the frame of a call of the availability functions
AvailabilityFrame ==
    UNCHANGED <<settings, aiVars, now, messageBuffers, timers, memoryFiles, delivered, sent,
                nHandled, lastGate, chatFiles, flow, extractionBuffers, botState, activityLog,
                replies, directories, replyVars, emitted, parked>>

\* a call of shouldGoAway(serverId)
ShouldGoAway(serverId) ==
    /\ LET goAway == shouldGoAway(serverId)
       IN /\ aiStatus' = goAway.status
          /\ messageCounters' = goAway.counters
          /\ lastCall' = [op |-> "shouldGoAway", n |-> 0, serverId |-> serverId,
                          value |-> goAway.away]
    /\ AvailabilityFrame

\* a call of getRealisticTypingDelay for a text, with the value Math.random()
\* returns in it
GetRealisticTypingDelay(text, serverId, random) ==
    /\ lastCall' = [op |-> "getRealisticTypingDelay", n |-> 0, serverId |-> serverId,
                    length |-> Len(text), random |-> random,
                    value |-> getRealisticTypingDelay(text, serverId, random)]
    /\ UNCHANGED <<aiStatus, messageCounters>>
    /\ AvailabilityFrame

(***************************************************************************)
(* The message-handling flow (processUserMessage)                          *)
(***************************************************************************)

\* the most entries a transcript is cut to
ChatLimit == 50

\* character.messageBufferSize: the buffered messages that start an extraction
messageBufferSize == 4

\* the text sent at line 443
Apology == "Sorry, I'm having trouble responding right now. Please try again in a moment."

\* the characters of a response text
Characters(text) == IF text = "hello" THEN <<"h", "e", "l", "l", "o">> ELSE <<>>

\* a value that `if (aiResponse)` takes for false
Falsy(response) == response = "" \/ response = Undefined

\* lines 148-178: the server id processUserMessage works with
DetectedServerId(message) ==
    IF message.guild # <<>> THEN message.guild
    ELSE IF message.isBatched THEN message.serverId
    ELSE <<>>

FlowScope(serverId) == IF serverId # <<>> THEN serverId[1] ELSE "dm"

\* the error a failed channel.send rejects with
SendError == [kind |-> "send", provider |-> "", detail |-> "", primaryMsg |-> <<>>, lastMsg |-> <<>>]

\* the ReferenceError of line 563
NotDefinedError ==
    [kind |-> "reference", provider |-> "", detail |-> "messages is not defined",
     primaryMsg |-> <<>>, lastMsg |-> <<>>]

\* a catch that logs and sends nothing
Caught_Silent(log, sentSoFar, channelId, err, apologyOk) ==
    [log |-> Append(log, [kind |-> "error", cause |-> err]), replies |-> sentSoFar]

\* the catch of lines 436-454: the log and the messages sent after it; the
\* send of the apology may fail, which is logged to the console only
Caught(log, sentSoFar, channelId, err, apologyOk) ==
    [log |-> Append(log, [kind |-> "error", cause |-> err]),
     replies |-> IF apologyOk
                 THEN Append(sentSoFar, [channelId |-> channelId, content |-> Apology])
                 ELSE sentSoFar]

\* client.user.id
BotUserId == "bot"

\* what channel.messages.fetch(messageId) does: it rejects, or resolves to
\* nothing or to a message
FetchFailed == [threw |-> TRUE, found |-> <<>>]

FetchedNothing == [threw |-> FALSE, found |-> <<>>]

Fetched(content, authorId) ==
    [threw |-> FALSE, found |-> <<[content |-> content, authorId |-> authorId]>>]

\* a lookup whose failure leaves a reply context behind
ReplyContextOf_KeepsOnFailure(message, fetched) ==
    IF message.reference # <<>>
    THEN <<[content |-> <<>>, author |-> BotUserId]>>
    ELSE <<>>

\* lines 199-214: the reply context of a message, fetched being the outcome
\* of the lookup of the message it refers to
ReplyContextOf(message, fetched) ==
    IF message.reference # <<>> /\ ~fetched.threw /\ fetched.found # <<>>
    THEN <<[content |-> fetched.found[1].content, author |-> fetched.found[1].authorId]>>
    ELSE <<>>

\* the console after lines 211-213
FetchLogged(errors, message, fetched) ==
    IF message.reference # <<>> /\ fetched.threw
    THEN Append(errors, "Error fetching referenced message:")
    ELSE errors

\* lines 217-224: the contextual note of a reply
ContextNote(replyContext) ==
    IF replyContext = <<>> THEN <<>>
    ELSE (IF replyContext[1].author = BotUserId
          THEN <<"Context (replied to my message): \"">>
          ELSE <<"Context (replied to another message): \"">>)
         \o replyContext[1].content \o <<"\"">>

\* line 229: the content of the chat entry
EntryContent(contextNote, content) ==
    IF contextNote # <<>> THEN contextNote \o <<"\n", "\n">> \o content ELSE content

\* the characters of a server name
NameText(name) == IF name = "Lumis" THEN <<"L", "u", "m", "i", "s">> ELSE <<>>

\* whether the text holds the name or an alias of the server
MentionsServer(text, server) ==
    \/ Includes(LowerString(text), LowerString(NameText(server.name)))
    \/ \E a \in 1..Len(server.aliases) : Includes(LowerString(text), LowerString(server.aliases[a]))

\* getServerMentionFromMessage: the id of the first known server whose name
\* or alias the text holds
getServerMentionFromMessage(text, knownServers) ==
    IF Len(text) = 0 \/ Len(knownServers) = 0 THEN <<>>
    ELSE LET hits == {k \in 1..Len(knownServers) : MentionsServer(text, knownServers[k])}
         IN IF hits = {} THEN <<>>
            ELSE <<knownServers[CHOOSE k \in hits : \A j \in hits : k <= j].id>>

\* lines 252-259: the server a message in a private context mentions
MentionedServer(message, serverId) ==
    IF serverId = <<>> /\ settings.ENABLE_SERVER_SUPPORT
    THEN getServerMentionFromMessage(message.content, settings.ALLOWED_SERVERS)
    ELSE <<>>

\* a start of the flow that saves the transcript with the user turn at once
BeginFlow_SavesUserTurn(message, fetched) ==
    /\ flow.n < MaxFlows
    /\ LET serverId == DetectedServerId(message)
           loaded == LoadChatFile(chatFiles, ChatPath(BotRole, message.authorId, FlowScope(serverId)))
           replyContext == ReplyContextOf(message, fetched)
           pushed == Append(loaded, ChatEntry("user", EntryContent(ContextNote(replyContext), message.content),
                                              now, FlowScope(serverId)))
           chat == IF Len(pushed) > ChatLimit THEN SliceLast(pushed, ChatLimit) ELSE pushed
       IN flow' = [pc |-> "awaiting", n |-> flow.n + 1, message |-> message,
                   serverId |-> serverId, chat |-> chat, repliesBefore |-> Len(replies),
                   logBefore |-> Len(activityLog), sendFailed |-> FALSE, outcome |-> "",
                   fetched |-> fetched, replyContext |-> replyContext,
                   mentionedServer |-> MentionedServer(message, serverId),
                   promptMemory |-> getCombinedPromptMemory(memoryFiles, BotRole, message.authorId,
                                                            serverId, <<>>),
                   memoryContext |-> getCombinedPromptMemory(memoryFiles, BotRole, message.authorId,
                                                             serverId, MentionedServer(message, serverId))]
    /\ consoleErrors' = FetchLogged(consoleErrors, message, fetched)
    /\ botState' = [botState EXCEPT !.currentAction = "processing"]
    /\ CallAskAI(buildPrompt(ToLower(settings.PRIMARY_AI)) = "turns", settings.PRIMARY_AI = "openrouter")
    /\ chatFiles' = SaveChatFile(chatFiles,
                                 ChatPath(BotRole, message.authorId, FlowScope(DetectedServerId(message))),
                                 flow'.chat, TRUE)
    /\ UNCHANGED <<now, aiStatus, messageCounters, messageBuffers, timers, memoryFiles, delivered,
                   sent, nHandled, lastGate, extractionBuffers, activityLog, replies,
                   lastCall, directories, userBuffers, fetching, emitted>>

\* processUserMessage is called with a combined message without attachment:
\* lines 144-318, up to the await of askAI. fetched is the outcome of the
\* lookup of the referenced message, if the message has a reference.
BeginFlow(message, fetched) ==
    /\ flow.n < MaxFlows
    /\ LET serverId == DetectedServerId(message)
           loaded == LoadChatFile(chatFiles, ChatPath(BotRole, message.authorId, FlowScope(serverId)))
           replyContext == ReplyContextOf(message, fetched)
           pushed == Append(loaded, ChatEntry("user", EntryContent(ContextNote(replyContext), message.content),
                                              now, FlowScope(serverId)))
           chat == IF Len(pushed) > ChatLimit THEN SliceLast(pushed, ChatLimit) ELSE pushed
       IN flow' = [pc |-> "awaiting", n |-> flow.n + 1, message |-> message,
                   serverId |-> serverId, chat |-> chat, repliesBefore |-> Len(replies),
                   logBefore |-> Len(activityLog), sendFailed |-> FALSE, outcome |-> "",
                   fetched |-> fetched, replyContext |-> replyContext,
                   mentionedServer |-> MentionedServer(message, serverId),
                   promptMemory |-> getCombinedPromptMemory(memoryFiles, BotRole, message.authorId,
                                                            serverId, <<>>),
                   memoryContext |-> getCombinedPromptMemory(memoryFiles, BotRole, message.authorId,
                                                             serverId, MentionedServer(message, serverId))]
    /\ consoleErrors' = FetchLogged(consoleErrors, message, fetched)
    /\ botState' = [botState EXCEPT !.currentAction = "processing"]
    /\ CallAskAI(buildPrompt(ToLower(settings.PRIMARY_AI)) = "turns", settings.PRIMARY_AI = "openrouter")
    /\ UNCHANGED <<now, aiStatus, messageCounters, messageBuffers, timers, memoryFiles, delivered,
                   sent, nHandled, lastGate, chatFiles, extractionBuffers, activityLog, replies,
                   lastCall, directories, userBuffers, fetching, emitted>>

\* processUserMessage is called while no other invocation of it is in flight
StartFlow(message, fetched) ==
    /\ flow.pc # "awaiting"
    /\ ask.pc \in {"idle", "returned", "thrown"}
    /\ BeginFlow(message, fetched)
    /\ UNCHANGED parked

\* the locals of the invocation in flight, of processUserMessage and of the
\* askAI it awaits
Invocation == [flow |-> flow, ask |-> ask, calls |-> calls, result |-> result, raised |-> raised]

\* processUserMessage is called for a later combined message while an
\* invocation awaits askAI (processFn is not awaited, messageHandler.js line
\* 356): that invocation stays suspended and the new one runs up to its await
StartOverlapping(message, fetched) ==
    /\ flow.pc = "awaiting"
    /\ ask.pc \in {"primary", "fallback"}
    /\ parked = <<>>
    /\ parked' = <<Invocation>>
    /\ BeginFlow(message, fetched)

\* the event loop turns to the suspended invocation: the one that ran is
\* suspended at its await, or is dropped once it has ended
ResumeParked ==
    /\ parked # <<>>
    /\ flow' = [parked[1].flow EXCEPT !.n = flow.n]
    /\ ask' = parked[1].ask
    /\ calls' = parked[1].calls
    /\ result' = parked[1].result
    /\ raised' = parked[1].raised
    /\ parked' = IF flow.pc = "awaiting" THEN <<Invocation>> ELSE <<>>
    /\ UNCHANGED <<settings, handlerVars, chatFiles, extractionBuffers, botState, activityLog,
                   replies, lastCall, directories, replyVars, emitted>>

(***************************************************************************)
(* The older batcher (src/messageBuffer.js)                                *)
(***************************************************************************)

BUFFER_TIMEOUT == 3000

\* messages.join('\n') of message contents
RECURSIVE JoinLines(_)
JoinLines(contents) ==
    IF Len(contents) = 1 THEN contents[1]
    ELSE contents[1] \o <<"\n">> \o JoinLines(Tail(contents))

\* bufferMessage(userId, content, processFn, replyContext) of messageBuffer.js
\* (arrivals is not in the code: it keeps, for each content of the buffer, the
\* number of the handleMessage call the content came with)
MB_bufferMessage(userId, content, replyContext, arrival) ==
    LET existing == IF userBuffers[userId] # <<>> THEN userBuffers[userId][1]
                    ELSE [messages |-> <<>>, timer |-> <<>>, replyContext |-> <<>>, arrivals |-> <<>>]
        withContext == IF replyContext # <<>> THEN [existing EXCEPT !.replyContext = replyContext]
                       ELSE existing
        newTimer == [key |-> <<userId>>, due |-> now + BUFFER_TIMEOUT]
        cleared == IF existing.timer # <<>> THEN timers \ {existing.timer[1]} ELSE timers
    IN /\ userBuffers' = [userBuffers EXCEPT ![userId] =
                            <<[withContext EXCEPT !.messages = Append(@, content),
                                                  !.timer = <<newTimer>>,
                                                  !.arrivals = Append(@, arrival)]>>]
       /\ timers' = cleared \cup {newTimer}

\* the frame of the steps of messageBuffer.js
MB_Frame ==
    UNCHANGED <<settings, aiVars, aiStatus, messageCounters, messageBuffers, memoryFiles, sent,
                lastGate, chatFiles, flow, extractionBuffers, botState, activityLog, replies,
                directories, emitted, parked>>

\* handleMessage(message, processFn) of messageBuffer.js up to its await, or
\* to its end if it awaits nothing; canFetch says whether the channel has one
\* of the three fetch functions
MB_handleMessage(message, canFetch) ==
    /\ nHandled' = nHandled + 1
    /\ IF message.reference # <<>> /\ canFetch
       THEN /\ fetching' = fetching \cup {[message EXCEPT !.id = nHandled + 1, !.arrived = now]}
            /\ UNCHANGED <<userBuffers, timers>>
       ELSE /\ MB_bufferMessage(message.authorId, message.content, <<>>, nHandled + 1)
            /\ UNCHANGED fetching
    /\ UNCHANGED <<now, delivered, consoleErrors, lastCall>>
    /\ MB_Frame

\* the fetch a handleMessage call awaits settles: lines 38-52
FetchSettles(message, fetched) ==
    /\ message \in fetching
    /\ fetching' = fetching \ {message}
    /\ MB_bufferMessage(message.authorId, message.content, ReplyContextOf(message, fetched), message.id)
    /\ consoleErrors' = FetchLogged(consoleErrors, message, fetched)
    /\ lastCall' = [op |-> "fetch", n |-> 0, message |-> message, fetched |-> fetched]
    /\ UNCHANGED <<now, delivered, nHandled>>
    /\ MB_Frame

\* the timeout of a buffer fires: processBuffer(userId, processFn)
MB_processBuffer(t) ==
    /\ t \in timers
    /\ now >= t.due
    /\ timers' = timers \ {t}
    /\ IF userBuffers[t.key[1]] = <<>>
       THEN UNCHANGED <<userBuffers, delivered>>
       ELSE /\ delivered' = Append(delivered,
                                   [userId |-> t.key[1],
                                    content |-> JoinLines(userBuffers[t.key[1]][1].messages),
                                    replyContext |-> userBuffers[t.key[1]][1].replyContext,
                                    arrivals |-> userBuffers[t.key[1]][1].arrivals])
            /\ userBuffers' = [userBuffers EXCEPT ![t.key[1]] = <<>>]
    /\ UNCHANGED <<now, nHandled, fetching, consoleErrors, lastCall>>
    /\ MB_Frame

\* the flow ends without a response sent and without an error caught
EndsSilent(log) ==
    /\ flow' = [flow EXCEPT !.pc = "done", !.outcome = "nothing"]
    /\ activityLog' = log
    /\ UNCHANGED <<now, messageCounters, memoryFiles, chatFiles, extractionBuffers, replies>>

\* the flow ends in the catch: lines 436-454
EndsCaught(log, sentSoFar, err, apologyOk, failed) ==
    LET caught == Caught(log, sentSoFar, flow.message.channelId, err, apologyOk)
    IN /\ flow' = [flow EXCEPT !.pc = "done", !.outcome = "caught",
                               !.sendFailed = failed \/ ~apologyOk]
       /\ activityLog' = caught.log
       /\ replies' = caught.replies

\* the 'prompt-response' event of sendResponseData(user, response, aiProvider),
\* emitted to a connected dashboard (user.username is modelled by the user id)
sendResponseData(user, response, aiProvider, timestamp) ==
    [username |-> user, userId |-> user, response |-> response, aiProvider |-> aiProvider,
     timestamp |-> timestamp]

\* askAI has returned or thrown: lines 318-455, the rest of processUserMessage.
\* random is the value of Math.random() in the typing delay (in hundredths),
\* sendOk and apologyOk say whether channel.send of the response and of the
\* apology succeed, writeOk whether the files can be written, extracted is
\* what the extractor returns if it is called.
FinishFlow(random, sendOk, apologyOk, writeOk, extracted) ==
    /\ flow.pc = "awaiting"
    /\ ask.pc \in {"returned", "thrown"}
    /\ botState' = [botState EXCEPT !.currentAction = "idle"]
    /\ UNCHANGED <<settings, aiVars, aiStatus, messageBuffers, timers, delivered, sent, nHandled,
                   lastGate, lastCall, directories, replyVars, parked>>
    /\ emitted' = IF ask.pc = "returned" /\ ~Falsy(result[1].response) /\ sendOk
                  THEN Append(emitted,
                              sendResponseData(flow.message.authorId, result[1].response,
                                               ToLower(settings.PRIMARY_AI),
                                               now + (Min(getRealisticTypingDelay(
                                                              Characters(result[1].response),
                                                              flow.serverId, random) \div 2,
                                                          1000 * UnitsPerMs) \div UnitsPerMs)))
                  ELSE emitted
    /\ IF ask.pc = "thrown"
       THEN /\ EndsCaught(activityLog, replies, raised[Len(raised)], apologyOk, FALSE)
            /\ UNCHANGED <<now, messageCounters, memoryFiles, chatFiles, extractionBuffers>>
       ELSE LET aiResponse == result[1].response
                userId == flow.message.authorId
                scope == FlowScope(flow.serverId)
                logged == Append(activityLog, [kind |-> "response", provider |-> result[1].provider,
                                               wasFallback |-> result[1].wasFallback])
                typingDelay == getRealisticTypingDelay(Characters(aiResponse), flow.serverId, random)
                sentAt == now + (Min(typingDelay \div 2, 1000 * UnitsPerMs) \div UnitsPerMs)
                chat == Append(flow.chat, ChatEntry(BotRole, aiResponse, sentAt, scope))
                buffered == extractionBuffers[userId]
                               \o <<BufferedMessage(scope), BufferedMessage(scope)>>
                extraction == processBatchedMemory(memoryFiles, userId, buffered, flow.serverId,
                                                   extracted, writeOk)
                withResponse == Append(replies, [channelId |-> flow.message.channelId,
                                                 content |-> aiResponse])
            IN IF Falsy(aiResponse)
               THEN EndsSilent(logged)
               ELSE /\ now' = sentAt
                    /\ IF ~sendOk
                       THEN /\ EndsCaught(logged, replies, SendError, apologyOk, TRUE)
                            /\ UNCHANGED <<messageCounters, memoryFiles, chatFiles, extractionBuffers>>
                       ELSE /\ messageCounters' = incrementMessageCounter(flow.serverId)
                            /\ chatFiles' = SaveChatFile(chatFiles, ChatPath(BotRole, userId, scope),
                                                         chat, writeOk)
                            /\ IF Len(buffered) < messageBufferSize
                               THEN /\ extractionBuffers' = [extractionBuffers EXCEPT ![userId] = buffered]
                                    /\ flow' = [flow EXCEPT !.pc = "done", !.outcome = "responded"]
                                    /\ activityLog' = logged
                                    /\ replies' = withResponse
                                    /\ UNCHANGED memoryFiles
                               ELSE /\ memoryFiles' = extraction.files
                                    /\ IF extraction.outcome = "threw"
                                       THEN /\ EndsCaught(logged, withResponse, NotDefinedError,
                                                          apologyOk, FALSE)
                                            /\ extractionBuffers' = [extractionBuffers EXCEPT ![userId] = buffered]
                                       ELSE /\ extractionBuffers' = [extractionBuffers EXCEPT ![userId] = <<>>]
                                            /\ flow' = [flow EXCEPT !.pc = "done", !.outcome = "responded"]
                                            /\ activityLog' =
                                                  IF extraction.outcome = "updated"
                                                  THEN Append(logged, [kind |-> "memory"])
                                                  ELSE logged
                                            /\ replies' = withResponse

\* a step of askAI while the flow awaits it
DispatchStep ==
    /\ flow.pc = "awaiting"
    /\ \/ \E t \in Texts : PrimarySucceeds(t)
       \/ \E k \in ErrorKinds : PrimaryFails(k)
       \/ \E t \in Texts : FallbackSucceeds(t)
       \/ \E k \in ErrorKinds : FallbackFails(k)
    /\ UNCHANGED handlerVars
    /\ UNCHANGED botVars

InitHandlerState(start, hourly, files) ==
    /\ now = start
    /\ aiStatus = NotAway
    /\ messageCounters = [global |-> [hourly |-> hourly, lastReset |-> start],
                          servers |-> [sv \in Servers |-> <<>>]]
    /\ messageBuffers = [k \in Keys |-> <<>>]
    /\ timers = {}
    /\ memoryFiles = files
    /\ delivered = <<>>
    /\ sent = <<>>
    /\ nHandled = 0
    /\ lastGate = <<>>
    /\ InitBot

\* the steps of the message handler, for messages of the set msgs, clock
\* steps of the set steps and, where an excuse is sent, the options of the set
\* picks
NextHandler(msgs, steps, limit, picks) ==
    /\ UNCHANGED aiVars
    /\ UNCHANGED botVars
    /\ \/ \E m \in msgs, r \in Draws, pick \in picks :
             nHandled < limit /\ HandleMessage(m[1], m[2], r, pick)
       \/ \E t \in timers : TimerFires(t)
       \/ \E d \in steps : CanAdvance(d) /\ Advance(d)
       \/ \E i \in 1..Len(delivered) : ResponseCounted(i)
       \/ ResetAwayStatus

\* the messages of the batching runs, each with what the platform says of it
BatchMessages ==
    { <<Message(FALSE, "dm1", Hi, NoReference, "none"), Plain>>,
      <<Message(FALSE, "dm1", Cat, NoReference, "image"), Plain>>,
      <<Message(FALSE, "c1", Cat, NoReference, "none"), Plain>> }

\* the repository's settings at noon, the hour's count one below the limit
InitBatch ==
    /\ settings = DefaultSettings
    /\ InitAI
    /\ InitHandlerState(Noon, MAX_MESSAGES_PER_HOUR - 1, NoMemoryFiles)

NextBatch == NextHandler(BatchMessages, {ShortStep}, MaxHandled, {0})

SpecBatch == InitBatch /\ [][NextBatch]_vars

\* the clock goes on while a timeout is pending
ClockRuns ==
    /\ \E t \in timers : now < t.due
    /\ Advance(ShortStep)
    /\ UNCHANGED botVars

\* a timeout that is due fires
DueTimerFires ==
    /\ \E t \in timers : TimerFires(t)
    /\ UNCHANGED botVars

NextDeliver ==
    \/ /\ UNCHANGED aiVars
       /\ UNCHANGED botVars
       /\ \/ \E m \in BatchMessages, r \in Draws :
                nHandled < MaxFairHandled /\ HandleMessage(m[1], m[2], r, 0)
          \/ \E i \in 1..Len(delivered) : ResponseCounted(i)
          \/ ResetAwayStatus
    \/ DueTimerFires
    \/ ClockRuns

InitDeliver ==
    /\ InitBatch
    /\ InitBot

\* the batcher with a clock that does not stop before a pending timeout is
\* due, and an event loop that runs the callback of a due timeout
SpecDeliver ==
    InitDeliver /\ [][NextDeliver]_vars /\ WF_vars(ClockRuns) /\ WF_vars(DueTimerFires)

\* the messages of the gate runs: in the configured server s1 without a
\* trigger and with each trigger, a reply that is no trigger, in an ignored
\* channel, in the unconfigured server s2, in private, and of a bot
GateMessages ==
    { <<Message(FALSE, "c1", Hi, NoReference, "none"), Plain>>,
      <<Message(FALSE, "c1", Hi, NoReference, "none"), Platform(TRUE, FALSE, FALSE)>>,
      <<Message(FALSE, "c1", Cat, NoReference, "none"), Plain>>,
      <<Message(FALSE, "c1", Hi, Reference, "none"), Platform(FALSE, TRUE, TRUE)>>,
      <<Message(FALSE, "c1", Hi, Reference, "none"), Platform(FALSE, TRUE, FALSE)>>,
      <<Message(FALSE, "c1", Hi, Reference, "none"), Platform(FALSE, FALSE, TRUE)>>,
      <<Message(FALSE, "c2", Cat, NoReference, "none"), Platform(TRUE, FALSE, FALSE)>>,
      <<Message(FALSE, "c3", Hi, NoReference, "none"), Plain>>,
      <<Message(FALSE, "c3", Hi, NoReference, "none"), Platform(TRUE, FALSE, FALSE)>>,
      <<Message(FALSE, "c3", Cat, NoReference, "none"), Plain>>,
      <<Message(FALSE, "c3", Hi, Reference, "none"), Platform(FALSE, TRUE, TRUE)>>,
      <<Message(FALSE, "dm1", Hi, NoReference, "none"), Plain>>,
      <<Message(TRUE, "c1", Cat, NoReference, "none"), Platform(TRUE, FALSE, FALSE)>> }

\* settings of the gate runs: the repository's (direct engagement only),
\* respond-to-all, respond-to-all without keywords and ignore list, and
\* server support and random ignoring switched off
RespondToAllSettings ==
    [DefaultSettings EXCEPT !.ALLOWED_SERVERS =
        <<ServerConfig("s1", TRUE, <<KwCat>>, <<"bot-spam", "admin-only">>)>>]

BareSettings ==
    [DefaultSettings EXCEPT !.ENABLE_RANDOM_IGNORE = FALSE, !.ALLOWED_SERVERS =
        <<ServerConfig("s1", TRUE, <<>>, <<>>)>>]

NoServerSettings ==
    [DefaultSettings EXCEPT !.ENABLE_SERVER_SUPPORT = FALSE, !.ENABLE_RANDOM_IGNORE = FALSE]

\* a memory.json that holds the given trust level and energy
MemoryFile(trustLevel, energy) ==
    <<JSONStringify([createDefaultMemory EXCEPT !.trustLevel = trustLevel, !.energy = energy])>>

TrustLevels == 0..10

\* the gate in direct-engagement-only mode and without server support, with
\* several private memories, at noon and just before the active window, and
\* with the hour's count at the limit
InitGate ==
    /\ InitAI
    /\ \/ /\ settings = DefaultSettings
          /\ \E f \in {<<>>, MemoryFile(0, "normal"), MemoryFile(2, "normal"), MemoryFile(9, "tired")} :
                InitHandlerState(Noon, 0, [NoMemoryFiles EXCEPT ![DMMemoryPath(BotRole, "u1")] = f])
       \/ /\ settings = DefaultSettings
          /\ \E start \in {Noon, BeforeWake} :
                InitHandlerState(start, MAX_MESSAGES_PER_HOUR, NoMemoryFiles)
       \/ /\ settings = NoServerSettings
          /\ InitHandlerState(Noon, 0, NoMemoryFiles)

NextGate == NextHandler(GateMessages, {LongStep}, MaxGateHandled, {0, 2})

SpecGate == InitGate /\ [][NextGate]_vars

\* the messages of the respond-to-all runs: those of server s1
TrustMessages == {m \in GateMessages : m[1].guild = <<"s1">> /\ ~m[1].authorBot}

\* the gate in respond-to-all mode, with every trust level stored in the
\* user's memory of server s1
InitTrust ==
    /\ InitAI
    /\ \/ /\ settings = RespondToAllSettings
          /\ \E t \in TrustLevels :
                InitHandlerState(Noon, 0, [NoMemoryFiles EXCEPT ![ServerUserMemoryPath(BotRole, "u1", "s1")] = MemoryFile(t, "normal")])
       \/ /\ settings = RespondToAllSettings
          /\ InitHandlerState(BeforeWake, 0, NoMemoryFiles)
       \/ /\ settings = BareSettings
          /\ InitHandlerState(Noon, 0, NoMemoryFiles)

NextTrust == NextHandler(TrustMessages, {LongStep}, MaxGateHandled, {0})

SpecTrust == InitTrust /\ [][NextTrust]_vars

\* the identity keys of the runs of the stores: a private and a community
\* store of one user, the private store of that user under another role, and
\* the private store of another user
StoreIdentities ==
    { <<"himari", "u1", "dm">>, <<"himari", "u1", "s1">>, <<"rudra", "u1", "dm">>,
      <<"himari", "u2", "dm">> }

\* the memories the runs save
StoreMemories ==
    { createDefaultMemory,
      [facts |-> <<Fact("user", 1)>>, trustLevel |-> 0, romanticLevel |-> 10,
       censorshipLevel |-> 3, mood |-> "happy", energy |-> "tired"] }

\* the transcripts the runs save
StoreChats == { <<ChatEntry("user", "hello", Noon, "dm")>> }

\* the batches handed to processBatchedMemory, with the server id passed
Batches ==
    { <<(<<BufferedMessage("dm")>>), (<<>>)>>,
      <<(<<BufferedMessage("dm")>>), (<<"s1">>)>>,
      <<(<<BufferedMessage("s1"), BufferedMessage("dm")>>), (<<"s1">>)>>,
      <<(<<BufferedMessage("s1")>>), (<<>>)>> }

ExtractorResult(facts, trustLevel, romanticLevel, censorshipLevel) ==
    <<[facts |-> facts, trustLevel |-> trustLevel, romanticLevel |-> romanticLevel,
       censorshipLevel |-> censorshipLevel]>>

\* what the extractor returns: nothing, or facts (none, new ones, known ones,
\* a repeated one, one about everyone) with levels inside and outside 0..10
ExtractorResults ==
    { <<>>,
      ExtractorResult(<<>>, 5, 0, 8),
      ExtractorResult(<<Fact("user", 31)>>, 11, 0 - 1, 12),
      ExtractorResult(<<Fact("user", 1), Fact("user", 31)>>, 10, 0, 0),
      ExtractorResult(<<Fact("user", 31), Fact("user", 31), Fact("user", 32)>>, 6, 1, 7),
      ExtractorResult(<<Fact("everyone", 31), Fact("user", 31)>>, 4, 2, 8) }

\* the files on disk at the start of a run of the stores: none; memories of
\* u1 one below and at the limit of facts; a private memory cut short
StoreFiles ==
    { NoMemoryFiles,
      [NoMemoryFiles EXCEPT
          ![DMMemoryPath(BotRole, "u1")] =
              <<JSONStringify([createDefaultMemory EXCEPT !.facts = FactsAbout("user", FactLimit - 1)])>>,
          ![ServerUserMemoryPath(BotRole, "u1", "s1")] =
              <<JSONStringify([createDefaultMemory EXCEPT !.facts = FactsAbout("user", FactLimit)])>>,
          ![ServerMemoryPath("s1")] =
              <<JSONStringify([DefaultServerMemory EXCEPT !.facts = FactsAbout("everyone", FactLimit)])>>],
      [NoMemoryFiles EXCEPT ![DMMemoryPath(BotRole, "u1")] = <<TruncatedText>>] }

InitStore ==
    /\ settings = DefaultSettings
    /\ InitAI
    /\ \E files \in StoreFiles : InitHandlerState(Noon, 0, files)

NextStore ==
    \/ \E i \in StoreIdentities, memory \in StoreMemories, mkdirOk \in BOOLEAN, writeOk \in BOOLEAN :
          SaveMemory(i[1], i[2], i[3], memory, mkdirOk, writeOk)
    \/ \E i \in StoreIdentities, chat \in StoreChats, mkdirOk \in BOOLEAN, writeOk \in BOOLEAN :
          SaveChat(i[1], i[2], i[3], chat, mkdirOk, writeOk)
    \/ \E i \in StoreIdentities, mkdirOk \in BOOLEAN : LoadMemoryCall(i[1], i[2], i[3], mkdirOk)
    \/ \E b \in Batches, extracted \in ExtractorResults, writeOk \in BOOLEAN :
          ProcessBatchedMemory("u1", b[1], b[2], extracted, writeOk)

SpecStore == InitStore /\ [][NextStore]_vars

\* the accumulation buffers of the scope runs, with the server id passed:
\* turns of two contexts of a user in either order, handed over by a turn in
\* private, in server s1 and in server s2
ScopeBatches ==
    { <<(<<BufferedMessage("dm"), BufferedMessage("s1")>>), (<<"s1">>)>>,
      <<(<<BufferedMessage("s1"), BufferedMessage("dm")>>), (<<>>)>>,
      <<(<<BufferedMessage("dm"), BufferedMessage("s1")>>), (<<>>)>>,
      <<(<<BufferedMessage("s1"), BufferedMessage("dm")>>), (<<"s1">>)>>,
      <<(<<BufferedMessage("s2"), BufferedMessage("s1")>>), (<<"s1">>)>>,
      <<(<<BufferedMessage("s1"), BufferedMessage("s2")>>), (<<"s2">>)>> }

InitScope ==
    /\ settings = DefaultSettings
    /\ InitAI
    /\ InitHandlerState(Noon, 0, NoMemoryFiles)

NextScope ==
    \E b \in ScopeBatches, writeOk \in BOOLEAN,
       extracted \in {<<>>, ExtractorResult(<<Fact("user", 31)>>, 6, 1, 7),
                      ExtractorResult(<<Fact("everyone", 31), Fact("user", 32)>>, 4, 2, 8)} :
       ProcessBatchedMemory("u1", b[1], b[2], extracted, writeOk)

SpecScope == InitScope /\ [][NextScope]_vars

\* a memory.json and an ai_mood.json as the disk runs find them
StoredMemory ==
    [facts |-> <<Fact("user", 1)>>, trustLevel |-> 0, romanticLevel |-> 10,
     censorshipLevel |-> 3, mood |-> "happy", energy |-> "tired"]

\* the disk at the start of a disk run: nothing yet; the private directory of
\* u1 with a memory and a transcript cut short, a mood file without energy;
\* every directory, with the private memory of u1 and the memory of server
\* s1 cut short, a transcript, and mood files whole and cut short
DiskStates ==
    { [dirs |-> {}, files |-> NoMemoryFiles, chats |-> NoChatFiles],
      [dirs |-> {DirectoryOf(DMMemoryPath(BotRole, "u1"))},
       files |-> [NoMemoryFiles EXCEPT ![DMMemoryPath(BotRole, "u1")] = <<JSONStringify(StoredMemory)>>,
                                       ![MoodPath(BotRole)] = <<JSONStringify([mood |-> "happy"])>>],
       chats |-> [NoChatFiles EXCEPT ![DMChatPath(BotRole, "u1")] = <<TruncatedText>>]],
      [dirs |-> AllDirectories,
       files |-> [NoMemoryFiles EXCEPT ![DMMemoryPath(BotRole, "u1")] = <<TruncatedText>>,
                                       ![ServerMemoryPath("s1")] = <<TruncatedText>>,
                                       ![MoodPath(BotRole)] = <<TruncatedText>>,
                                       ![MoodPath("rudra")] =
                                           <<JSONStringify([mood |-> "happy", energy |-> "tired"])>>],
       chats |-> [NoChatFiles EXCEPT ![DMChatPath(BotRole, "u1")] =
                                           <<ChatText(<<ChatEntry("user", "hello", Noon, "dm")>>)>>]] }

InitDisk ==
    /\ settings = DefaultSettings
    /\ InitAI
    /\ now = Noon
    /\ aiStatus = NotAway
    /\ messageCounters = [global |-> [hourly |-> 0, lastReset |-> Noon], servers |-> [sv \in Servers |-> <<>>]]
    /\ messageBuffers = [k \in Keys |-> <<>>]
    /\ timers = {}
    /\ delivered = <<>>
    /\ sent = <<>>
    /\ nHandled = 0
    /\ lastGate = <<>>
    /\ flow = IdleFlow
    /\ extractionBuffers = [u \in Users |-> <<>>]
    /\ botState = [mood |-> "neutral", energy |-> "normal", isAway |-> FALSE, currentAction |-> "idle"]
    /\ activityLog = <<>>
    /\ replies = <<>>
    /\ emitted = <<>>
    /\ parked = <<>>
    /\ lastCall = NoCall
    /\ InitReplyState
    /\ \E disk \in DiskStates :
          /\ directories = disk.dirs
          /\ memoryFiles = disk.files
          /\ chatFiles = disk.chats

\* the calls of the load and save functions, each with whether mkdirSync and
\* writeFileSync succeed if they are called
NextDisk ==
    \/ \E i \in StoreIdentities, mkdirOk \in BOOLEAN : LoadMemoryCall(i[1], i[2], i[3], mkdirOk)
    \/ \E i \in StoreIdentities, mkdirOk \in BOOLEAN : LoadChatCall(i[1], i[2], i[3], mkdirOk)
    \/ \E serverId \in {"s1"}, mkdirOk \in BOOLEAN : LoadServerMemoryCall(serverId, mkdirOk)
    \/ \E botRole \in Roles : GetAIMood(botRole)
    \/ \E i \in StoreIdentities, memory \in StoreMemories, mkdirOk \in BOOLEAN, writeOk \in BOOLEAN :
          SaveMemory(i[1], i[2], i[3], memory, mkdirOk, writeOk)
    \/ \E i \in StoreIdentities, chat \in StoreChats, mkdirOk \in BOOLEAN, writeOk \in BOOLEAN :
          SaveChat(i[1], i[2], i[3], chat, mkdirOk, writeOk)

SpecDisk == InitDisk /\ [][NextDisk]_vars

\* the levels a stored RelationshipMemory holds in the runs of the view
ViewLevels == {0, 1, 5, 8, 10}

\* a RelationshipMemory with the given levels, one fact and a mood
ViewMemory(n, trustLevel, romanticLevel, censorshipLevel, mood) ==
    [facts |-> <<Fact("user", n)>>, trustLevel |-> trustLevel, romanticLevel |-> romanticLevel,
     censorshipLevel |-> censorshipLevel, mood |-> mood, energy |-> "tired"]

\* the disk of a run of the view: u1 has a private memory with the levels
\* t, r, c and a memory in server s1 with the levels c, t, r; s1 has a memory
ViewFiles(t, r, c) ==
    [NoMemoryFiles EXCEPT
        ![DMMemoryPath(BotRole, "u1")] = <<JSONStringify(ViewMemory(1, t, r, c, "happy"))>>,
        ![ServerUserMemoryPath(BotRole, "u1", "s1")] = <<JSONStringify(ViewMemory(2, c, t, r, "sad"))>>,
        ![ServerMemoryPath("s1")] =
            <<JSONStringify([facts |-> <<Fact("everyone", 3)>>, mood |-> "excited", energy |-> "energetic"])>>]

InitView ==
    /\ settings = DefaultSettings
    /\ InitAI
    /\ now = Noon
    /\ aiStatus = NotAway
    /\ messageCounters = [global |-> [hourly |-> 0, lastReset |-> Noon], servers |-> [sv \in Servers |-> <<>>]]
    /\ messageBuffers = [k \in Keys |-> <<>>]
    /\ timers = {}
    /\ delivered = <<>>
    /\ sent = <<>>
    /\ nHandled = 0
    /\ lastGate = <<>>
    /\ flow = IdleFlow
    /\ extractionBuffers = [u \in Users |-> <<>>]
    /\ botState = [mood |-> "neutral", energy |-> "normal", isAway |-> FALSE, currentAction |-> "idle"]
    /\ activityLog = <<>>
    /\ replies = <<>>
    /\ emitted = <<>>
    /\ parked = <<>>
    /\ lastCall = NoCall
    /\ InitReplyState
    /\ chatFiles = NoChatFiles
    /\ \E t \in ViewLevels, r \in ViewLevels, c \in ViewLevels : memoryFiles = ViewFiles(t, r, c)
    /\ directories = {DirectoryOf(DMMemoryPath(BotRole, "u1")),
                      DirectoryOf(ServerUserMemoryPath(BotRole, "u1", "s1")),
                      DirectoryOf(ServerMemoryPath("s1"))}

\* one call of getCombinedPromptMemory for u1: in private, in a server, in
\* private with a server mentioned
NextView ==
    \E serverId \in {<<>>, <<"s1">>, <<"s2">>}, mentionedServer \in {<<>>, <<"s1">>}, mkdirOk \in BOOLEAN :
        /\ (serverId # <<>> => mentionedServer = <<>>)
        /\ GetCombinedPromptMemory(BotRole, "u1", serverId, mentionedServer, mkdirOk)

SpecView == InitView /\ [][NextView]_vars

\* a text of n characters
TextOfLength(n) == [k \in 1..n |-> "a"]

\* the lengths of the texts a delay is computed for
TextLengths == {0, 41, 60, 61, 150, 200}

\* the values of Math.random() in getRealisticTypingDelay, in hundredths
Jitters == {0, 50, 99}

\* the clock of the runs of the availability functions: in the night, just
\* before and just after the start of the window, at noon and late in the
\* evening, each with seconds
AvailabilityTimes ==
    { 2 * HourMs + 15000, BeforeWake, 7 * HourMs + 1, Noon + 30 * MinuteMs + 15000,
      23 * HourMs + 30 * MinuteMs + 15000 }

\* the window of settings.js and a window that ends at 11 PM
AvailabilitySettings == {DefaultSettings, [DefaultSettings EXCEPT !.ACTIVE_HOURS_END = 23]}

Counter(hourly, lastReset) == [hourly |-> hourly, lastReset |-> lastReset]

\* the global counter of the runs: counts at and above 80% of the limit, one
\* below the limit, at it and above it, last reset now, almost an hour ago
\* and an hour ago
GlobalCounters(t) ==
    { Counter(0, t), Counter(40, t), Counter(41, t),
      Counter(MAX_MESSAGES_PER_HOUR - 1, t - (HourMs - 1)),
      Counter(MAX_MESSAGES_PER_HOUR, t), Counter(MAX_MESSAGES_PER_HOUR, t - (HourMs - 1)),
      Counter(MAX_MESSAGES_PER_HOUR, t - HourMs), Counter(MAX_MESSAGES_PER_HOUR + 1, t - HourMs) }

\* the counter of server s1 in the runs: none yet, or one
ServerCounters(t) ==
    { <<>>, <<Counter(41, t)>>, <<Counter(MAX_MESSAGES_PER_HOUR, t)>>,
      <<Counter(MAX_MESSAGES_PER_HOUR, t - HourMs)>> }

InitAvailability ==
    /\ settings \in AvailabilitySettings
    /\ InitAI
    /\ now \in AvailabilityTimes
    /\ aiStatus = NotAway
    /\ \E global \in GlobalCounters(now), server \in ServerCounters(now) :
          messageCounters = [global |-> global,
                             servers |-> [sv \in Servers |-> IF sv = "s1" THEN server ELSE <<>>]]
    /\ messageBuffers = [k \in Keys |-> <<>>]
    /\ timers = {}
    /\ memoryFiles = NoMemoryFiles
    /\ delivered = <<>>
    /\ sent = <<>>
    /\ nHandled = 0
    /\ lastGate = <<>>
    /\ InitBot

NextAvailability ==
    \/ \E serverId \in {<<>>, <<"s1">>} : ShouldGoAway(serverId)
    \/ \E n \in TextLengths, serverId \in {<<>>, <<"s1">>}, random \in Jitters :
          GetRealisticTypingDelay(TextOfLength(n), serverId, random)

SpecAvailability == InitAvailability /\ [][NextAvailability]_vars

\* the combined message of one message with content "hi" in a channel
FlowMessage(channelId) ==
    CombinedMessage([messages |-> <<Message(FALSE, channelId, Hi, NoReference, "none")>>,
                     serverId |-> ChannelGuild(channelId)])

\* the messages handed to the flow: in a private channel and in server s1
FlowMessages == {FlowMessage("dm1"), FlowMessage("c1")}

\* a transcript of k entries as earlier exchanges left it: user and agent
\* in turn, one second apart
History(k, context) ==
    [i \in 1..k |-> ChatEntry(IF i % 2 = 1 THEN "user" ELSE BotRole,
                              IF i % 2 = 1 THEN Hi ELSE "hello", i * 1000, context)]

\* the private transcript of u1 at the start: none, or of 48 or of 50 entries
FlowChats ==
    { NoChatFiles,
      [NoChatFiles EXCEPT ![DMChatPath(BotRole, "u1")] = <<ChatText(History(ChatLimit - 2, "dm"))>>],
      [NoChatFiles EXCEPT ![DMChatPath(BotRole, "u1")] = <<ChatText(History(ChatLimit, "dm"))>>] }

\* openrouter first, gemini as the one fallback
FlowSettings ==
    [DefaultSettings EXCEPT !.PRIMARY_AI = "openrouter", !.FALLBACK_ORDER = <<"gemini">>]

InitFlow ==
    /\ settings = FlowSettings
    /\ InitAI
    /\ now = Noon
    /\ aiStatus = NotAway
    /\ messageCounters = [global |-> Counter(0, Noon), servers |-> [sv \in Servers |-> <<>>]]
    /\ messageBuffers = [k \in Keys |-> <<>>]
    /\ timers = {}
    /\ memoryFiles = NoMemoryFiles
    /\ delivered = <<>>
    /\ sent = <<>>
    /\ nHandled = 0
    /\ lastGate = <<>>
    /\ chatFiles \in FlowChats
    /\ InitBotState

NextFlow ==
    \/ \E message \in FlowMessages : StartFlow(message, FetchedNothing)
    \/ DispatchStep
    \/ \E sendOk \in BOOLEAN, apologyOk \in BOOLEAN, writeOk \in BOOLEAN,
          extracted \in {<<>>, ExtractorResult(<<Fact("user", 31)>>, 6, 1, 7)} :
          FinishFlow(50, sendOk, apologyOk, writeOk, extracted)

SpecFlow == InitFlow /\ [][NextFlow]_vars

\* the characters of "Lumis rocks"
LumisRocks == <<"L", "u", "m", "i", "s", " ", "r", "o", "c", "k", "s">>

\* the combined message of one message with the given content in a channel
MentionMessage(channelId, content) ==
    CombinedMessage([messages |-> <<Message(FALSE, channelId, content, NoReference, "none")>>,
                     serverId |-> ChannelGuild(channelId)])

\* the messages of the runs of the mention: in private without a mention,
\* with the name and with the alias of server s1, and in server s1
MentionMessages ==
    {MentionMessage("dm1", Hi), MentionMessage("dm1", LumisRocks),
     MentionMessage("dm1", AliasServer), MentionMessage("c1", LumisRocks)}

\* as InitFlow, with memories of u1 and of server s1 on disk and no transcript
InitMention ==
    /\ settings = FlowSettings
    /\ InitAI
    /\ now = Noon
    /\ aiStatus = NotAway
    /\ messageCounters = [global |-> [hourly |-> 0, lastReset |-> Noon], servers |-> [sv \in Servers |-> <<>>]]
    /\ messageBuffers = [k \in Keys |-> <<>>]
    /\ timers = {}
    /\ memoryFiles \in {ViewFiles(3, 10, 6), ViewFiles(8, 1, 5)}
    /\ delivered = <<>>
    /\ sent = <<>>
    /\ nHandled = 0
    /\ lastGate = <<>>
    /\ chatFiles = NoChatFiles
    /\ InitBotState

NextMention ==
    \/ \E message \in MentionMessages : StartFlow(message, FetchedNothing)
    \/ DispatchStep
    \/ \E sendOk \in BOOLEAN, apologyOk \in BOOLEAN, writeOk \in BOOLEAN,
          extracted \in {<<>>, ExtractorResult(<<Fact("user", 31)>>, 6, 1, 7)} :
          FinishFlow(50, sendOk, apologyOk, writeOk, extracted)

SpecMention == InitMention /\ [][NextMention]_vars

\* the combined messages of two batches of one identity, in private: the
\* first says "hi", the later one "CAT"
OverlapMessages == {MentionMessage("dm1", Hi), MentionMessage("dm1", Cat)}

\* two generations of one identity may overlap; every send and write succeeds
InitOverlap ==
    /\ settings = FlowSettings
    /\ InitAI
    /\ InitHandlerState(Noon, 0, NoMemoryFiles)
    /\ chatFiles \in {NoChatFiles,
                      [NoChatFiles EXCEPT ![DMChatPath(BotRole, "u1")] = <<ChatText(History(2, "dm"))>>]}
    /\ InitBotState

NextOverlap ==
    \/ \E message \in OverlapMessages : StartFlow(message, FetchedNothing)
    \/ \E message \in OverlapMessages : StartOverlapping(message, FetchedNothing)
    \/ ResumeParked
    \/ DispatchStep
    \/ \E apologyOk \in BOOLEAN : FinishFlow(50, TRUE, apologyOk, TRUE, <<>>)

SpecOverlap == InitOverlap /\ [][NextOverlap]_vars

\* the combined message of one message in a channel, with a reference or not
ReplyMessage(channelId, reference) ==
    CombinedMessage([messages |-> <<Message(FALSE, channelId, Hi, reference, "none")>>,
                     serverId |-> ChannelGuild(channelId)])

\* the messages of the reply runs: a reply and a message that is none
ReplyMessages ==
    { ReplyMessage("c1", NoReference), ReplyMessage("c1", Reference) }

\* what the lookup does in the reply runs: it fails, finds nothing, finds a
\* message of the agent or one of somebody else
FetchOutcomes == {FetchFailed, FetchedNothing, Fetched(<<"y", "o">>, BotUserId), Fetched(Cat, "u2")}

\* the messages handed to the older batcher
UserMessages ==
    { Message(FALSE, "dm1", Hi, NoReference, "none"), Message(FALSE, "dm1", Cat, Reference, "none") }

InitReply ==
    /\ settings = FlowSettings
    /\ InitAI
    /\ InitHandlerState(Noon, 0, NoMemoryFiles)

\* the runs of the reply lookup: processUserMessage on replies, or the older
\* batcher on replies (nothing connects the two, a run has one of them)
NextReply ==
    \/ /\ nHandled = 0
       /\ \/ \E message \in ReplyMessages, fetched \in FetchOutcomes :
                /\ (message.reference = <<>> => fetched = FetchedNothing)
                /\ StartFlow(message, fetched)
          \/ DispatchStep
          \/ FinishFlow(50, TRUE, TRUE, TRUE, <<>>)
    \/ /\ flow.n = 0
       /\ \/ \E message \in UserMessages, canFetch \in BOOLEAN :
                nHandled < MaxUserHandled /\ MB_handleMessage(message, canFetch)
          \/ \E message \in fetching, fetched \in FetchOutcomes : FetchSettles(message, fetched)
          \/ \E t \in timers : MB_processBuffer(t)
          \/ \E d \in {ShortStep} : CanAdvance(d) /\ Advance(d) /\ UNCHANGED aiVars /\ UNCHANGED botVars

SpecReply == InitReply /\ [][NextReply]_vars

InitDispatch ==
    /\ \E p \in Names, e \in BOOLEAN, o \in FallbackOrders :
          settings = [DefaultSettings EXCEPT !.PRIMARY_AI = p, !.FALLBACK_ENABLED = e,
                                             !.FALLBACK_ORDER = o]
    /\ InitAI
    /\ InitHandlerState(0, 0, NoMemoryFiles)

NextDispatch ==
    /\ UNCHANGED handlerVars
    /\ UNCHANGED botVars
    /\ \/ \E promptIsArray \in BOOLEAN, hasChatHistory \in BOOLEAN : AskAI(promptIsArray, hasChatHistory)
       \/ \E t \in Texts : PrimarySucceeds(t)
       \/ \E k \in ErrorKinds : PrimaryFails(k)
       \/ \E t \in Texts : FallbackSucceeds(t)
       \/ \E k \in ErrorKinds : FallbackFails(k)
       \/ \E p \in Names : ChangeAIProvider(p)

SpecDispatch == InitDispatch /\ [][NextDispatch]_vars
(***************************************************************************)
(* Properties of the provider dispatcher                                   *)
(***************************************************************************)

\* the names the invocation in flight is to try, in order: the primary, then
\* FALLBACK_ORDER with the primary removed
DispatchOrder ==
    <<ask.primaryAI>> \o SelectSeq(settings.FALLBACK_ORDER, LAMBDA n : ToLower(n) # ask.primaryAI)

\* the providers among them
ProviderOrder == SelectSeq(DispatchOrder, LAMBDA n : n \in Providers)

CalledProviders == [i \in 1..Len(calls) |-> calls[i].provider]

IsPrefix(s, t) == Len(s) <= Len(t) /\ \A i \in 1..Len(s) : s[i] = t[i]

Started == ask.pc # "idle"

Finished == ask.pc \in {"returned", "thrown"}

\* the primary attempt of the invocation has failed
PrimaryHasFailed ==
    /\ Started
    /\ \/ ask.primaryAI \notin Providers
       \/ Len(calls) >= 1 /\ calls[1].done /\ ~calls[1].ok

\* the error of the primary attempt
PrimaryErrorOf ==
    IF ask.primaryAI \in Providers THEN calls[1].error[1] ELSE UnknownProviderError(ask.primaryAI)

FallbackCalls == SelectSeq(calls, LAMBDA c : c.asFallback)

\* C3: providers are called in the order primary, FALLBACK_ORDER without the
\* primary; every call before the last one has failed; a call that succeeds
\* is the last one, ends the dispatch without an error, and the result is
\* that provider's text, provider = its name, wasFallback = TRUE exactly when
\* it is not the primary.
C3_FirstSuccessWins ==
    Started =>
        /\ IsPrefix(CalledProviders, ProviderOrder)
        /\ \A i \in 1..Len(calls) :
              /\ i < Len(calls) => calls[i].done /\ ~calls[i].ok
              /\ (calls[i].done /\ calls[i].ok) =>
                    /\ i = Len(calls)
                    /\ ask.pc = "returned"
                    /\ raised = <<>>
                    /\ result = <<[response |-> calls[i].text,
                                   provider |-> calls[i].provider,
                                   wasFallback |-> (calls[i].provider # ask.primaryAI)]>>

\* C3 witness: the primary and the first fallback failed, the second fallback
\* succeeded and its text was returned
C3_Witness ==
    /\ ask.pc = "returned"
    /\ Len(calls) = 3
    /\ ~calls[1].ok /\ ~calls[2].ok /\ calls[3].ok
    /\ result[1].provider = DispatchOrder[3]
    /\ result[1].wasFallback

\* every configured name was attempted as a provider and every attempt failed
AllProvidersFailed ==
    /\ Finished
    /\ PrimaryHasFailed
    /\ Len(FallbackCalls) >= 1
    /\ [i \in 1..Len(FallbackCalls) |-> FallbackCalls[i].provider] = Tail(DispatchOrder)
    /\ \A i \in 1..Len(calls) : calls[i].done /\ ~calls[i].ok

\* C4: when the primary and every fallback provider have failed, exactly one
\* error is raised, it is the aggregate error, it carries the primary's error
\* message and the message of the last fallback tried, and nothing is returned.
C4_AggregateError ==
    AllProvidersFailed =>
        /\ ask.pc = "thrown"
        /\ result = <<>>
        /\ Len(raised) = 1
        /\ raised[1].kind = "all_failed"
        /\ raised[1].primaryMsg = <<PrimaryErrorOf>>
        /\ raised[1].lastMsg = <<calls[Len(calls)].error[1]>>

\* C4 witness: a primary and two fallbacks, all failed
C4_Witness ==
    /\ AllProvidersFailed
    /\ Len(calls) = 3
    /\ ask.pc = "thrown"

\* C5: with FALLBACK_ENABLED false a primary failure calls no fallback and
\* raises the primary's own error; a fallback provider is called only after a
\* primary failure with FALLBACK_ENABLED true.
C5_FallbackDisabled ==
    /\ (PrimaryHasFailed /\ ~settings.FALLBACK_ENABLED) =>
          /\ ask.pc = "thrown"
          /\ FallbackCalls = <<>>
          /\ raised = <<PrimaryErrorOf>>
          /\ result = <<>>
    /\ FallbackCalls # <<>> => (settings.FALLBACK_ENABLED /\ PrimaryHasFailed)

\* C5 witness: the primary provider was called and failed with fallback disabled
C5_Witness ==
    /\ ~settings.FALLBACK_ENABLED
    /\ settings.FALLBACK_ORDER # <<>>
    /\ Len(calls) = 1 /\ calls[1].done /\ ~calls[1].ok
    /\ ask.pc = "thrown"
(***************************************************************************)
(* Properties of the message batcher                                       *)
(***************************************************************************)

KeyOf(message) == BufferKey(message.authorId, message.channelId)

\* m1.content, newline, m2.content, ..., newline, mn.content
RECURSIVE ContentsInOrder(_)
ContentsInOrder(messages) ==
    IF Len(messages) = 1 THEN messages[1].content
    ELSE ContentsInOrder(SubSeq(messages, 1, Len(messages) - 1))
         \o <<"\n">> \o messages[Len(messages)].content

LastOf(seq) == seq[Len(seq)]

\* C1: a flush of a buffer holding m1..mn (n >= 1) of one key calls processFn
\* exactly once, with the contents joined by newlines in arrival order, and
\* deletes the buffer; a second flush of the key changes nothing. Every call
\* of processFn made so far carried such a combined content.
C1_FlushOnce ==
    /\ \A k \in Keys : messageBuffers[k] # <<>> =>
          LET messages == messageBuffers[k][1].messages
              once == processBatchedMessages(messageBuffers, delivered, k)
              twice == processBatchedMessages(once.buffers, once.calls, k)
          IN /\ Len(messages) >= 1
             /\ \A i \in 1..Len(messages) : KeyOf(messages[i]) = k
             /\ \A i, j \in 1..Len(messages) : i < j => messages[i].id < messages[j].id
             /\ Len(once.calls) = Len(delivered) + 1
             /\ SubSeq(once.calls, 1, Len(delivered)) = delivered
             /\ LastOf(once.calls).content = ContentsInOrder(messages)
             /\ LastOf(once.calls).originalMessages = messages
             /\ once.buffers = [messageBuffers EXCEPT ![k] = <<>>]
             /\ twice = once
    /\ \A k \in Keys : messageBuffers[k] = <<>> =>
          processBatchedMessages(messageBuffers, delivered, k)
              = [buffers |-> messageBuffers, calls |-> delivered]
    /\ \A i \in 1..Len(delivered) :
          /\ Len(delivered[i].originalMessages) >= 1
          /\ delivered[i].content = ContentsInOrder(delivered[i].originalMessages)

\* C1 witness: three messages of one key were flushed as one combined message
\* and the buffer of the key is gone
C1_Witness ==
    \E i \in 1..Len(delivered) :
        /\ Len(delivered[i].originalMessages) = 3
        /\ delivered[i].originalMessages[1].content # delivered[i].originalMessages[2].content
        /\ messageBuffers[KeyOf(delivered[i].originalMessages[1])] = <<>>

\* the messages of key k that were buffered so far
AcceptedOf(k) ==
    (IF messageBuffers[k] # <<>>
     THEN {messageBuffers[k][1].messages[i] : i \in 1..Len(messageBuffers[k][1].messages)}
     ELSE {})
    \cup UNION {{delivered[i].originalMessages[j] : j \in 1..Len(delivered[i].originalMessages)} :
                i \in {n \in 1..Len(delivered) : KeyOf(delivered[n].originalMessages[1]) = k}}

\* a message that is buffered leaves exactly one timeout armed for its key,
\* due one window after its arrival
ArmsNewTimer ==
    (nHandled' = nHandled + 1 /\ lastGate'[1].outcome = "buffered") =>
        LET k == KeyOf(lastGate'[1].message)
        IN {t \in timers' : t.key = k} = {[key |-> k, due |-> now + MESSAGE_BUFFER_TIMEOUT]}

\* a flush happens no sooner than one window after the latest message of its key
FlushAfterWindow ==
    Len(delivered') > Len(delivered) =>
        LET k == KeyOf(LastOf(delivered').originalMessages[1])
        IN \A m \in AcceptedOf(k) : now >= m.arrived + MESSAGE_BUFFER_TIMEOUT

\* two messages of a key that are flushed apart are a window or more apart
BurstOneFlush ==
    \A i \in 1..Len(delivered) :
        LET k == KeyOf(delivered[i].originalMessages[1])
            lastOfBatch == LastOf(delivered[i].originalMessages)
        IN /\ \A j \in 1..Len(delivered) :
                 (i < j /\ KeyOf(delivered[j].originalMessages[1]) = k) =>
                     delivered[j].originalMessages[1].arrived
                         >= lastOfBatch.arrived + MESSAGE_BUFFER_TIMEOUT
           /\ messageBuffers[k] # <<>> =>
                 messageBuffers[k][1].messages[1].arrived
                     >= lastOfBatch.arrived + MESSAGE_BUFFER_TIMEOUT

\* C2: every buffered message cancels the pending timeout of its key and arms
\* one of MESSAGE_BUFFER_TIMEOUT; no flush of a key happens less than one
\* window after the latest message of the key; messages of a key that arrive
\* less than a window apart are flushed together.
C2_Debounce == [][ArmsNewTimer /\ FlushAfterWindow /\ BurstOneFlush']_vars

\* C2 witness: a burst of three messages, each within the window of the
\* previous one, ended in one flush
C2_Witness ==
    /\ Len(delivered) = 1
    /\ Len(delivered[1].originalMessages) = 3
    /\ \A i \in 1..2 : delivered[1].originalMessages[i + 1].arrived
                          < delivered[1].originalMessages[i].arrived + MESSAGE_BUFFER_TIMEOUT
    /\ messageBuffers[KeyOf(delivered[1].originalMessages[1])] = <<>>
(***************************************************************************)
(* Properties of the engagement gate                                       *)
(***************************************************************************)

\* the entries of ALLOWED_SERVERS for the community of a message; none for a
\* private message, and none when server support is switched off
ConfigEntries(message) ==
    IF message.guild = <<>> \/ ~settings.ENABLE_SERVER_SUPPORT THEN <<>>
    ELSE SelectSeq(settings.ALLOWED_SERVERS, LAMBDA c : c.id = message.guild[1])

\* the community of the message has a configuration entry
Registered(message) ==
    \E i \in 1..Len(settings.ALLOWED_SERVERS) : settings.ALLOWED_SERVERS[i].id = message.guild[1]

AllAccepted == UNION {AcceptedOf(k) : k \in Keys}

\* the gate said yes to the latest message
GateAccepted(g) == g.decision # <<>> /\ g.decision[1].respond

\* C6: a message of a community without configuration entry is declined and
\* never buffered, with or without a mention, a keyword or a reply to the agent.
C6_UnregisteredDeclined ==
    /\ lastGate # <<>> =>
          LET g == lastGate[1]
          IN (g.message.guild # <<>> /\ ~Registered(g.message)) =>
                /\ ~GateAccepted(g)
                /\ g.outcome \in {"bot", "not_allowed", "declined"}
    /\ \A m \in AllAccepted : m.guild # <<>> => Registered(m)

\* C6 witness: a message that mentions the agent in the unconfigured server
\* was handled and dropped
C6_Witness ==
    /\ lastGate # <<>>
    /\ lastGate[1].message.guild = <<"s2">>
    /\ lastGate[1].platform.mentionsBot
    /\ lastGate[1].outcome = "not_allowed"

\* the bucket the specification gives trust level t
DocumentedThreshold(t) ==
    IF t >= 8 THEN 80 ELSE IF t >= 6 THEN 50 ELSE IF t >= 4 THEN 20 ELSE 5

\* C7: in respond-to-all mode without a trigger the gate compares the random
\* draw with the bucket of the stored trust level t: 0.8 for t >= 8, 0.5 for
\* t >= 6, 0.2 for t >= 4, 0.05 below (t = 0 included).
C7_TrustBuckets ==
    lastGate # <<>> =>
        LET g == lastGate[1]
        IN (g.decision # <<>> /\ g.decision[1].cause = "trust_draw") =>
              g.decision[1].threshold = <<DocumentedThreshold(g.userMemory[1].trustLevel)>>

\* the agent is away and awayUntil is still ahead
StillAway == aiStatus.isAway /\ aiStatus.awayUntil # <<>> /\ now < aiStatus.awayUntil[1]

\* a handleMessage call has just happened, for a message that is not a bot's
Handled == nHandled' = nHandled + 1 /\ ~lastGate'[1].message.authorBot

\* the channel of the message is on the ignore list of configuration c
OnIgnoreList(message, c) == ListHas(c.ignore_channels, ToLower(message.channelName))

\* C8: not away, configured community in respond-to-all mode, channel not
\* ignored, a trigger fired: the gate accepts whatever the trust level and
\* whatever Math.random() would return.
C8_TriggerAlwaysAccepted ==
    [][ (/\ Handled
         /\ ~StillAway
         /\ ConfigEntries(lastGate'[1].message) # <<>>
         /\ ConfigEntries(lastGate'[1].message)[1].respond_to_all
         /\ ~OnIgnoreList(lastGate'[1].message, ConfigEntries(lastGate'[1].message)[1])
         /\ wasDirectlyEngaged(lastGate'[1].message, lastGate'[1].platform,
                               ConfigEntries(lastGate'[1].message)[1]))
        => /\ GateAccepted(lastGate'[1])
           /\ lastGate'[1].decision[1].threshold = <<>>
           /\ lastGate'[1].outcome \in {"buffered", "excuse"} ]_vars

\* C8 witness: a user of trust level 0 mentioned the agent in a
\* respond-to-all community and the gate accepted
C8_Witness ==
    /\ lastGate # <<>>
    /\ lastGate[1].decision # <<>>
    /\ lastGate[1].decision[1].cause = "engaged"
    /\ lastGate[1].decision[1].respond
    /\ lastGate[1].userMemory[1].trustLevel = 0
    /\ lastGate[1].platform.mentionsBot

\* C9: not away, configured community in direct-engagement-only mode, channel
\* not ignored: the gate accepts exactly when a trigger fired, and draws no
\* random number.
C9_DirectOnlyIffTrigger ==
    [][ (/\ Handled
         /\ ~StillAway
         /\ ConfigEntries(lastGate'[1].message) # <<>>
         /\ ~ConfigEntries(lastGate'[1].message)[1].respond_to_all
         /\ ~OnIgnoreList(lastGate'[1].message, ConfigEntries(lastGate'[1].message)[1]))
        => /\ lastGate'[1].decision # <<>>
           /\ lastGate'[1].decision[1].respond
                = wasDirectlyEngaged(lastGate'[1].message, lastGate'[1].platform,
                                     ConfigEntries(lastGate'[1].message)[1])
           /\ lastGate'[1].decision[1].threshold = <<>>
           /\ (lastGate'[1].outcome = "declined") = ~lastGate'[1].decision[1].respond ]_vars

\* C9 witness: in the direct-engagement-only community a message without any
\* trigger was declined
C9_Witness ==
    /\ lastGate # <<>>
    /\ lastGate[1].decision # <<>>
    /\ lastGate[1].decision[1].cause = "direct_only"
    /\ ~lastGate[1].decision[1].respond
    /\ lastGate[1].outcome = "declined"

\* C10: while the agent is away and awayUntil is ahead, a message of any
\* channel type, trust level and triggers is declined: nothing is buffered,
\* no timeout is armed and nothing is sent.
C10_AwayDeclinesAll ==
    [][ (nHandled' = nHandled + 1 /\ StillAway)
        => /\ ~GateAccepted(lastGate'[1])
           /\ lastGate'[1].outcome \in {"bot", "not_allowed", "declined"}
           /\ (~lastGate'[1].message.authorBot /\ lastGate'[1].outcome = "declined")
                 => lastGate'[1].decision[1].cause = "away"
           /\ UNCHANGED <<messageBuffers, timers, sent, delivered>> ]_vars

\* C10 witness: the agent is away and a message that mentions it was declined
\* for that reason
C10_Witness ==
    /\ lastGate # <<>>
    /\ lastGate[1].decision # <<>>
    /\ lastGate[1].decision[1].cause = "away"
    /\ lastGate[1].platform.mentionsBot
    /\ aiStatus.isAway

(***************************************************************************)
(* Properties of the stores and of the memory extraction                   *)
(***************************************************************************)

\* the default memory, as documented
DocumentedDefault ==
    [facts |-> <<>>, trustLevel |-> 5, romanticLevel |-> 0, censorshipLevel |-> 8,
     mood |-> "neutral", energy |-> "normal"]

\* C11: a load of an identity key right after a save of that key that wrote
\* its file returns a memory equal to the saved one, and a load of a key that
\* has no file returns the default memory.
C11_RoundTripAndDefault ==
    [][ lastCall'.op = "loadMemory"
        => /\ (lastCall.op = "saveMemory" /\ lastCall.ok /\ lastCall'.key = lastCall.key)
                 => lastCall'.value = lastCall.value
           /\ memoryFiles[MemoryPath(lastCall'.key[1], lastCall'.key[2], lastCall'.key[3])] = <<>>
                 => lastCall'.value = DocumentedDefault ]_vars

\* C11 witness: the only call that changed files saved a memory with a fact
\* and two-digit and zero levels in a community store, and the load of that
\* key returned it
C11_Witness ==
    /\ lastCall.op = "loadMemory"
    /\ lastCall.n = 1
    /\ lastCall.key = <<"himari", "u1", "s1">>
    /\ lastCall.value.facts = <<Fact("user", 1)>>
    /\ lastCall.value.romanticLevel = 10
    /\ lastCall.value.trustLevel = 0
    /\ lastCall.value.mood = "happy"

\* the facts of the memory file at a path
FactsAt(files, path) ==
    LoadFile(files, path, IF path[1] = "servers" THEN DefaultServerMemory ELSE createDefaultMemory).facts

\* position of the first occurrence of a fact in a list
FirstAt(list, fact) == CHOOSE k \in 1..Len(list) : list[k] = fact /\ \A h \in 1..(k - 1) : list[h] # fact

Elements(list) == {list[k] : k \in 1..Len(list)}

\* kept holds each fact once, at most 30 of them and as many as the limit
\* allows, in the order in which the facts were first added, and every fact
\* left out was first added before every fact kept
KeepsMostRecent(facts, added, kept) ==
    \A all \in {facts \o added} :
    \A at \in {[f \in Elements(all) |-> FirstAt(all, f)]} :
       /\ Len(kept) <= 30
       /\ \A i, j \in 1..Len(kept) : i # j => kept[i] # kept[j]
       /\ Elements(kept) \subseteq DOMAIN at
       /\ Len(kept) = IF Cardinality(DOMAIN at) < 30 THEN Cardinality(DOMAIN at) ELSE 30
       /\ \A i \in 1..(Len(kept) - 1) : at[kept[i]] < at[kept[i + 1]]
       /\ \A f \in (DOMAIN at) \ Elements(kept), g \in Elements(kept) : at[f] < at[g]

\* C12: every memory file holds at most 30 facts and no fact twice, and an
\* extraction merge that wrote its files keeps, of the stored facts followed
\* by the extracted ones, the most recently added in insertion order; the
\* same for the facts promoted to the memory of the community.
C12_FactCap ==
    [][ /\ \A p \in MemoryPaths :
              memoryFiles'[p] # memoryFiles[p]
              => \A stored \in {FactsAt(memoryFiles', p)} :
                    /\ Len(stored) <= 30
                    /\ \A i, j \in 1..Len(stored) : i # j => stored[i] # stored[j]
        /\ (/\ lastCall'.op = "processBatchedMemory"
            /\ lastCall'.n = lastCall.n + 1
            /\ lastCall'.outcome \in {"updated", "threw"}
            /\ lastCall'.ok)
           => \A extracted \in {lastCall'.result[1].facts} :
              \A promoted \in {SelectSeq(extracted, IsGlobalFact)} :
                 /\ \A before \in {FactsAt(memoryFiles, lastCall'.path)} :
                    \A after \in {FactsAt(memoryFiles', lastCall'.path)} :
                       KeepsMostRecent(before, extracted, after)
                 /\ (lastCall'.outcome = "threw" /\ promoted # <<>>)
                    => \A before \in {FactsAt(memoryFiles, ServerMemoryPath(lastCall'.path[5]))} :
                       \A after \in {FactsAt(memoryFiles', ServerMemoryPath(lastCall'.path[5]))} :
                          KeepsMostRecent(before, promoted, after) ]_vars

\* C12 witness: a merge of a fact extracted twice and another new one into a
\* private memory of 29 facts evicted the oldest fact, and a merge into the
\* memory of a community at the limit evicted its oldest fact
C12_Witness ==
    /\ lastCall.op = "processBatchedMemory"
    /\ lastCall.n = 2
    /\ lastCall.outcome = "threw"
    /\ FactsAt(memoryFiles, DMMemoryPath(BotRole, "u1")) =
          SubSeq(FactsAbout("user", 29), 2, 29) \o <<Fact("user", 31), Fact("user", 32)>>
    /\ FactsAt(memoryFiles, ServerMemoryPath("s1")) =
          SubSeq(FactsAbout("everyone", 30), 2, 30) \o <<Fact("everyone", 31)>>

\* C13: in every stored memory of a user the trust, romantic and censorship
\* levels are within 0..10, whatever the extractor returned.
C13_LevelsInRange ==
    \A i \in Identities :
       \A stored \in {LoadFile(memoryFiles, MemoryPath(i[1], i[2], i[3]), createDefaultMemory)} :
          /\ stored.trustLevel \in 0..10
          /\ stored.romanticLevel \in 0..10
          /\ stored.censorshipLevel \in 0..10

\* C20: a save of a memory or of a transcript under one identity key changes
\* what a load returns for no other identity key, neither its memory nor its
\* transcript.
C20_StoreIndependence ==
    [][ (lastCall'.op \in {"saveMemory", "saveChat"} /\ lastCall'.n = lastCall.n + 1)
        => \A i \in Identities :
              i # lastCall'.key
              => /\ LoadFile(memoryFiles', MemoryPath(i[1], i[2], i[3]), createDefaultMemory)
                      = LoadFile(memoryFiles, MemoryPath(i[1], i[2], i[3]), createDefaultMemory)
                 /\ LoadChatFile(chatFiles', ChatPath(i[1], i[2], i[3]))
                      = LoadChatFile(chatFiles, ChatPath(i[1], i[2], i[3])) ]_vars

\* C20 witness: after a save under the role himari, a save of another memory
\* for the same user under the role rudra wrote its file; the private store
\* under himari still holds the first memory and the store of that user in
\* the community s1 holds nothing
C20_Witness ==
    /\ lastCall.op = "saveMemory"
    /\ lastCall.n = 2
    /\ lastCall.ok
    /\ lastCall.key = <<"rudra", "u1", "dm">>
    /\ lastCall.value = createDefaultMemory
    /\ memoryFiles[DMMemoryPath("rudra", "u1")] # <<>>
    /\ LoadFile(memoryFiles, DMMemoryPath("himari", "u1"), createDefaultMemory).trustLevel = 0
    /\ memoryFiles[ServerUserMemoryPath("himari", "u1", "s1")] = <<>>

(***************************************************************************)
(* Properties of the availability functions and of the typing delay        *)
(***************************************************************************)

OutsideActiveHours ==
    GetHours(now) < settings.ACTIVE_HOURS_START \/ GetHours(now) >= settings.ACTIVE_HOURS_END

\* the next time after t at which the hour ACTIVE_HOURS_START begins
NextStartOfWindow(t) ==
    IF GetHours(t) < settings.ACTIVE_HOURS_START
    THEN (t - (t % 86400000)) + settings.ACTIVE_HOURS_START * 3600000
    ELSE (t - (t % 86400000)) + 86400000 + settings.ACTIVE_HOURS_START * 3600000

\* C15: after a call of shouldGoAway at an hour outside the active window the
\* call has returned true and the agent is away with reason time_to_sleep
\* until the next start of the window: today's when the start hour is still
\* ahead, tomorrow's otherwise.
C15_SleepTransition ==
    (lastCall.op = "shouldGoAway" /\ OutsideActiveHours)
    => /\ lastCall.value
       /\ aiStatus.isAway
       /\ aiStatus.awayReason = "time_to_sleep"
       /\ aiStatus.awayUntil = <<NextStartOfWindow(now)>>

\* the counter of the scope of a call: the community's, which starts at zero
\* when the community has none yet, or the global one
ScopeCounter(counters, serverId) ==
    IF serverId = <<>> THEN counters.global
    ELSE IF counters.servers[serverId[1]] = <<>> THEN [hourly |-> 0, lastReset |-> now]
    ELSE counters.servers[serverId[1]][1]

\* C16: a call of shouldGoAway within the active hours leaves the counter of
\* its scope at zero, last reset now, when an hour or more has passed since
\* its last reset, and as it was otherwise; it leaves the other counters as
\* they were; if that counter is then at or above MAX_MESSAGES_PER_HOUR the
\* call returns true and the agent is away with reason tired until 30 minutes
\* from now, otherwise it returns false and the availability state is as before.
C16_FatigueTransition ==
    [][ (lastCall'.op = "shouldGoAway" /\ ~OutsideActiveHours)
        => \A before \in {ScopeCounter(messageCounters, lastCall'.serverId)} :
           \A after \in {ScopeCounter(messageCounters', lastCall'.serverId)} :
              /\ after = IF now - before.lastReset >= 3600000
                         THEN [hourly |-> 0, lastReset |-> now]
                         ELSE before
              /\ lastCall'.serverId # <<>> => messageCounters'.global = messageCounters.global
              /\ \A sv \in Servers :
                    lastCall'.serverId # <<sv>> => messageCounters'.servers[sv] = messageCounters.servers[sv]
              /\ IF after.hourly >= MAX_MESSAGES_PER_HOUR
                 THEN /\ lastCall'.value
                      /\ aiStatus' = [isAway |-> TRUE, awayReason |-> "tired",
                                      awayUntil |-> <<now + 30 * 60000>>]
                 ELSE /\ ~lastCall'.value
                      /\ aiStatus' = aiStatus ]_vars

\* C16 witness: within the active hours a call for the global scope has reset
\* the global counter, which was at the limit, and a call for the community
\* s1, whose counter is at the limit and was reset less than an hour ago, then
\* made the agent tired
C16_Witness ==
    /\ lastCall.op = "shouldGoAway"
    /\ lastCall.serverId = <<"s1">>
    /\ lastCall.value
    /\ ~OutsideActiveHours
    /\ aiStatus = [isAway |-> TRUE, awayReason |-> "tired", awayUntil |-> <<now + 30 * 60000>>]
    /\ messageCounters.global = [hourly |-> 0, lastReset |-> now]
    /\ messageCounters.servers["s1"] = <<[hourly |-> MAX_MESSAGES_PER_HOUR, lastReset |-> now]>>

\* C17: every delay getRealisticTypingDelay returns is at most 2500 ms and at
\* least MIN_TYPING_DELAY ms.
C17_TypingDelayBounds ==
    lastCall.op = "getRealisticTypingDelay"
    => /\ lastCall.value <= 2500 * UnitsPerMs
       /\ lastCall.value >= MIN_TYPING_DELAY * UnitsPerMs

(***************************************************************************)
(* Properties of the message-handling flow                                 *)
(***************************************************************************)

\* C14: every transcript the flow writes holds at most 50 entries: the most
\* recent 50 of the entries it held before followed by the user turn and the
\* agent turn of the exchange.
C14_TranscriptCap ==
    [][ \A p \in ChatPaths :
           chatFiles'[p] # chatFiles[p]
           => \A before \in {LoadChatFile(chatFiles, p)} :
              \A after \in {LoadChatFile(chatFiles', p)} :
                 /\ Len(after) <= 50
                 /\ Len(after) >= 2
                 /\ after[Len(after) - 1].role = "user"
                 /\ after[Len(after)].role = BotRole
                 /\ \A all \in {before \o SubSeq(after, Len(after) - 1, Len(after))} :
                       after = IF Len(all) <= 50 THEN all
                               ELSE SubSeq(all, Len(all) - 49, Len(all)) ]_vars

\* C18: when the flow has ended and no send to the channel has failed, the
\* flow has sent something to the channel, the response or the apology,
\* whatever askAI returned or raised.
C18_NoSilentDrop ==
    (flow.pc = "done" /\ ~flow.sendFailed) => Len(replies) > flow.repliesBefore

\* C19: when askAI has raised and the flow has ended (and the send of the
\* apology has not failed), the flow has sent the apology to the channel of
\* the message and nothing else, has logged the error askAI raised and
\* nothing else, and currentAction is idle.
C19_ApologyOnFailure ==
    (flow.pc = "done" /\ ask.pc = "thrown" /\ ~flow.sendFailed)
    => /\ SubSeq(replies, flow.repliesBefore + 1, Len(replies))
            = <<[channelId |-> flow.message.channelId, content |-> Apology]>>
       /\ SubSeq(activityLog, flow.logBefore + 1, Len(activityLog))
            = <<[kind |-> "error", cause |-> raised[Len(raised)]]>>
       /\ botState.currentAction = "idle"

\* C19 witness: in the second exchange the primary provider and the fallback
\* have failed, askAI has raised the error that all providers failed, and the
\* flow has ended with the apology sent in the server channel
C19_Witness ==
    /\ flow.pc = "done"
    /\ flow.n = 2
    /\ ask.pc = "thrown"
    /\ ~flow.sendFailed
    /\ Len(calls) = 2
    /\ raised[Len(raised)].kind = "all_failed"
    /\ flow.message.channelId = "c1"
    /\ replies[Len(replies)].content = Apology
    /\ botState.currentAction = "idle"

(***************************************************************************)
(* Properties of the load and save functions on a failing disk             *)
(***************************************************************************)

\* the record a load reads is missing or does not parse
Unreadable(files, path) == files[path] = <<>> \/ "truncated" \in DOMAIN files[path][1]

\* the load ended without raising and, if its record was missing or
\* corrupt, returned the given default
RecoveredLocally(files, path, default) ==
    /\ ~lastCall.threw
    /\ Unreadable(files, path) => lastCall.value = default

\* C21: no load of the stores raises to its caller, and a load whose record
\* is missing or corrupt returns the documented default: the default memory,
\* the default community memory, the empty transcript, the neutral mood.
C21_LoadsNeverRaise ==
    /\ lastCall.op = "loadMemory"
          => RecoveredLocally(memoryFiles, MemoryPath(lastCall.key[1], lastCall.key[2], lastCall.key[3]),
                              DocumentedDefault)
    /\ lastCall.op = "loadChat"
          => RecoveredLocally(chatFiles, ChatPath(lastCall.key[1], lastCall.key[2], lastCall.key[3]), <<>>)
    /\ lastCall.op = "loadServerMemory"
          => RecoveredLocally(memoryFiles, ServerMemoryPath(lastCall.key[1]),
                              [facts |-> <<>>, mood |-> "neutral", energy |-> "normal"])
    /\ lastCall.op = "getAIMood"
          => RecoveredLocally(memoryFiles, MoodPath(lastCall.key[1]),
                              [mood |-> "neutral", energy |-> "normal"])

\* C22: a save of the stores that did not write its file returned normally
\* all the same.
C22_FailedSaveReturns ==
    (lastCall.op \in {"saveMemory", "saveChat"} /\ ~lastCall.ok) => ~lastCall.threw

(***************************************************************************)
(* Properties of the reply lookup                                          *)
(***************************************************************************)

\* the console line of a failed lookup
FetchErrorLine == "Error fetching referenced message:"

\* the reply context the platform's message gives
ContextOfFound(fetched) ==
    <<[content |-> fetched.found[1].content, author |-> fetched.found[1].authorId]>>

\* the buffer of a user before a step of the older batcher, an empty one if
\* the user has none
BufferBefore(userId) ==
    IF userBuffers[userId] = <<>>
    THEN [messages |-> <<>>, timer |-> <<>>, replyContext |-> <<>>, arrivals |-> <<>>]
    ELSE userBuffers[userId][1]

\* a step of processUserMessage up to askAI on a reply: the turn goes on to
\* askAI; after a failed lookup the entry pushed to the transcript is the
\* one of the message alone and the failure is logged; after a lookup that
\* found the message its content and author are the reply context
ReplyInFlow ==
    (flow'.n = flow.n + 1 /\ flow'.message.reference # <<>>)
    => /\ flow'.pc = "awaiting"
       /\ ask'.pc = "primary"
       /\ flow'.fetched.threw
             => /\ flow'.replyContext = <<>>
                /\ flow'.chat[Len(flow'.chat)] =
                      ChatEntry("user", flow'.message.content, now, FlowScope(flow'.serverId))
                /\ consoleErrors' = Append(consoleErrors, FetchErrorLine)
       /\ (~flow'.fetched.threw /\ flow'.fetched.found # <<>>)
             => /\ flow'.replyContext = ContextOfFound(flow'.fetched)
                /\ consoleErrors' = consoleErrors

\* a step of the older batcher in which a lookup settles: the message is
\* buffered; after a failed lookup the buffer is the one a message without
\* reference leaves and the failure is logged; after a lookup that found the
\* message its content and author are the buffer's reply context
ReplyInBatcher ==
    (fetching' # fetching /\ fetching' \subseteq fetching)
    => \A userId \in {lastCall'.message.authorId} :
          /\ userBuffers'[userId] # <<>>
          /\ userBuffers'[userId][1].messages =
                Append(BufferBefore(userId).messages, lastCall'.message.content)
          /\ [key |-> <<userId>>, due |-> now + BUFFER_TIMEOUT] \in timers'
          /\ lastCall'.fetched.threw
                => /\ userBuffers'[userId][1].replyContext = BufferBefore(userId).replyContext
                   /\ consoleErrors' = Append(consoleErrors, FetchErrorLine)
          /\ (~lastCall'.fetched.threw /\ lastCall'.fetched.found # <<>>)
                => /\ userBuffers'[userId][1].replyContext = ContextOfFound(lastCall'.fetched)
                   /\ consoleErrors' = consoleErrors

\* C23: a failed lookup of the replied-to message does not end the turn: the
\* message is buffered or processed as one without reply context and the
\* failure is logged; a lookup that finds the message attaches its content
\* and author as reply context.
C23_ReplyLookup == [][ReplyInFlow /\ ReplyInBatcher]_vars

\* C23 witness: a reply whose lookup failed was answered, its transcript
\* entry holding the message alone
C23_Witness ==
    /\ flow.pc = "done"
    /\ flow.outcome = "responded"
    /\ flow.message.reference # <<>>
    /\ flow.fetched.threw
    /\ flow.chat[Len(flow.chat)].content = Hi
    /\ consoleErrors = <<FetchErrorLine>>
    /\ Len(replies) = 1

(***************************************************************************)
(* Properties of the combined message                                      *)
(***************************************************************************)

\* C24: every combined message handed to processFn has the channel, the
\* guild, the server id and the attachments of the first message of its
\* batch, and as content the join of the contents of all its messages.
C24_MetadataOfFirst ==
    \A i \in 1..Len(delivered) :
       \A firstMessage \in {delivered[i].originalMessages[1]} :
          /\ delivered[i].channelId = firstMessage.channelId
          /\ delivered[i].channelType = firstMessage.channelType
          /\ delivered[i].guild = firstMessage.guild
          /\ delivered[i].serverId = firstMessage.guild
          /\ delivered[i].attachments = firstMessage.attachments
          /\ delivered[i].content = ContentsInOrder(delivered[i].originalMessages)

(***************************************************************************)
(* Properties of the away transition                                       *)
(***************************************************************************)

\* the excuses for going to sleep
SleepExcuses ==
    { "I'm getting sleepy, gonna head to bed. Talk to you in the morning!",
      "It's my bedtime, catch you tomorrow!",
      "Need to get some rest now. Message you later!",
      "*yawns* Getting really tired, need to sleep. Ttyl!" }

\* the excuses for a break of the given minutes
BreakExcuses(minutes) ==
    { <<"I need a quick break! I'll be back in about ">> \o minutes \o <<" minutes.">>,
      <<"Gonna take a little breather for ">> \o minutes \o <<" mins. Talk soon!">>,
      <<"Need to step away for a bit (~">> \o minutes \o <<" mins). BRB!">>,
      <<"Taking a short break, message you in a bit!">> }

\* the ids of the messages in the buffers and in the combined messages
\* handed to processFn
IdsBuffered ==
    UNION {{messageBuffers[k][1].messages[i].id : i \in 1..Len(messageBuffers[k][1].messages)} :
           k \in {key \in Keys : messageBuffers[key] # <<>>}}

IdsDelivered ==
    UNION {{delivered[i].originalMessages[j].id : j \in 1..Len(delivered[i].originalMessages)} :
           i \in 1..Len(delivered)}

\* a handleMessage call whose message the gate accepted
AcceptedStep ==
    /\ nHandled' = nHandled + 1
    /\ lastGate'[1].decision # <<>>
    /\ lastGate'[1].decision[1].respond

\* the call sent one excuse for the recorded reason to the channel of the
\* message and buffered nothing
ExcuseOnly ==
    /\ Len(sent') = Len(sent) + 1
    /\ SubSeq(sent', 1, Len(sent)) = sent
    /\ sent'[Len(sent')].channelId = lastGate'[1].message.channelId
    /\ aiStatus'.isAway
    /\ aiStatus'.awayReason \in {"time_to_sleep", "tired"}
    /\ aiStatus'.awayReason = "time_to_sleep" => sent'[Len(sent')].content \in SleepExcuses
    /\ aiStatus'.awayReason = "tired" => sent'[Len(sent')].content \in BreakExcuses(<<"3", "0">>)
    /\ messageBuffers' = messageBuffers
    /\ timers' = timers
    /\ delivered' = delivered

\* the call buffered the message and sent nothing
BufferedOnly ==
    /\ sent' = sent
    /\ \A k \in {KeyOf(lastGate'[1].message)} :
          /\ messageBuffers'[k] # <<>>
          /\ LastOf(messageBuffers'[k][1].messages) = lastGate'[1].message

\* C25: a handleMessage call whose message the gate accepted sends exactly
\* one excuse for the recorded away reason to the channel of the message and
\* buffers nothing if shouldGoAway returns true, and buffers the message and
\* sends no excuse if it returns false; a message answered with an excuse is
\* in no buffer and in no combined message handed to processFn.
C25_AwayTransition ==
    [][ /\ AcceptedStep => IF shouldGoAway(lastGate'[1].message.guild).away
                           THEN ExcuseOnly ELSE BufferedOnly
        /\ \A i \in 1..Len(sent') : sent'[i].id \notin (IdsBuffered' \cup IdsDelivered') ]_vars

\* C25 witness: an accepted message was answered with the excuse for a break
\* of 30 minutes and is in no buffer, and an earlier accepted message of the
\* run went to processFn
C25_Witness ==
    /\ Len(sent) = 1
    /\ sent[1].reason = "tired"
    /\ sent[1].content = <<"Need to step away for a bit (~", "3", "0", " mins). BRB!">>
    /\ sent[1].id \notin IdsBuffered
    /\ Len(delivered) = 1

(***************************************************************************)
(* Structured prompt on fallback (src/ai/openrouter.js:367-372, 446-472)   *)
(***************************************************************************)

\* the primary provider of this invocation was called with a list of turns
PrimaryGotTurns ==
    /\ Len(calls) > 0
    /\ ~calls[1].asFallback
    /\ PayloadShape(calls[1].payload, ask.promptIsArray) = "turns"

\* C26: whenever the primary provider was called with the structured
\* rendering (a list of role-tagged turns) and a fallback call goes to gemini
\* or colab, that call carries the flattened text of
\* convertMessagesToSimplePrompt and never a list of turns.
C26_FlattenedOnFallback ==
    PrimaryGotTurns =>
        \A i \in 1..Len(calls) :
            (calls[i].asFallback /\ calls[i].provider \in {"gemini", "colab"}) =>
                /\ calls[i].payload = "simplifiedPrompt"
                /\ PayloadShape(calls[i].payload, ask.promptIsArray) = "text"

(***************************************************************************)
(* The response notification (src/unnamed/part_002:327-373,                *)
(* src/dashboard/server.js:499-524)                                        *)
(***************************************************************************)

\* C27: the response-received event emitted for a delivered response names
\* the provider that served the request and carries whether it was a fallback.
C27_NotificationNamesProvider ==
    [][emitted' # emitted =>
          \A e \in {emitted'[Len(emitted')]} :
              /\ e.aiProvider = result[1].provider
              /\ "wasFallback" \in DOMAIN e
              /\ e.wasFallback = result[1].wasFallback]_vars

(***************************************************************************)
(* Properties of the memory view (src/utils/memory.js:312-360)             *)
(***************************************************************************)

\* the RelationshipMemory stored for the user of a call in scope `scope`
StoredFor(key, scope) == JSONParse(memoryFiles[MemoryPath(key[1], key[2], scope)][1])[1]

\* the view has the levels of the stored memory
SameLevels(view, stored) ==
    /\ view.trustLevel = stored.trustLevel
    /\ view.romanticLevel = stored.romanticLevel
    /\ view.censorshipLevel = stored.censorshipLevel

\* the latest call returned a view for a user whose memory in `scope` is stored
ViewReturned(scope) ==
    /\ lastCall.op = "getCombinedPromptMemory"
    /\ ~lastCall.threw
    /\ memoryFiles[MemoryPath(lastCall.key[1], lastCall.key[2], scope)] # <<>>

\* C28: in a private context the view's trustLevel, romanticLevel and
\* censorshipLevel equal the values stored in the user's private
\* RelationshipMemory, and in a community context those of the user's memory
\* in that community, for every stored value in 0..10.
C28_ViewLevels ==
    /\ (ViewReturned("dm") /\ lastCall.key[3] = <<>>)
          => SameLevels(lastCall.value, StoredFor(lastCall.key, "dm"))
    /\ (lastCall.op = "getCombinedPromptMemory" /\ lastCall.key[3] = <<"s1">> /\ ViewReturned("s1"))
          => SameLevels(lastCall.value, StoredFor(lastCall.key, "s1"))

\* a step of processUserMessage for a private message that mentions a server
MentionStep ==
    /\ flow' # flow
    /\ "mentionedServer" \in DOMAIN flow'
    /\ flow'.mentionedServer # <<>>

\* the view has the facts of the stores of the server
HasFactsOf(view, userId, serverId) ==
    /\ view.serverGlobalFacts = loadServerMemory(memoryFiles, serverId).facts
    /\ view.serverUserFacts = loadServerUserMemory(BotRole, userId, serverId).facts

\* the view has the levels and the mood of the private memory of the user
PrivateLevels(view, userId) ==
    /\ SameLevels(view, loadDMMemory(BotRole, userId))
    /\ view.userMood = loadDMMemory(BotRole, userId).mood
    /\ view.userEnergy = loadDMMemory(BotRole, userId).energy

\* the memories of the servers
CommunityFiles(files) ==
    [p \in {q \in MemoryPaths : q[1] = "servers" \/ Len(q) = 6} |-> files[p]]

\* C29: when a private message mentions a known server, the memory view the
\* prompt is built from holds that server's facts, its levels and the user's
\* mood and energy are those of the private memory, and no step of the flow
\* writes a memory of the server.
C29_MentionView ==
    [][MentionStep =>
          /\ flow'.pc = "awaiting" =>
                /\ HasFactsOf(flow'.promptMemory, flow'.message.authorId, flow'.mentionedServer[1])
                /\ PrivateLevels(flow'.promptMemory, flow'.message.authorId)
          /\ CommunityFiles(memoryFiles') = CommunityFiles(memoryFiles)]_vars

(***************************************************************************)
(* Ordering (src/utils/messageHandler.js:290-327, src/messageBuffer.js,    *)
(* src/unnamed/part_002:188-239)                                           *)
(***************************************************************************)

\* numbers in strictly ascending order
Ascending(numbers) == \A i \in 1..(Len(numbers) - 1) : numbers[i] < numbers[i + 1]

\* every combined content handed to processFn lists the message bodies in
\* the order of the handleMessage calls the messages came with
DeliveredInArrivalOrder ==
    \A i \in 1..Len(delivered) :
        IF "originalMessages" \in DOMAIN delivered[i]
        THEN /\ Ascending([k \in 1..Len(delivered[i].originalMessages) |->
                               delivered[i].originalMessages[k].id])
             /\ delivered[i].content = JoinContents(delivered[i].originalMessages)
        ELSE Ascending(delivered[i].arrivals)

\* a flow that sent its response and saved the transcript leaves the
\* transcript of its identity as the one before it, or its latest entries,
\* followed by the user turn of the combined message and the agent turn that
\* answered it
TurnsAppended ==
    (flow.pc = "awaiting" /\ flow'.pc = "done" /\ flow'.outcome = "responded"
        /\ chatFiles' # chatFiles)
    => \A path \in {ChatPath(BotRole, flow.message.authorId, FlowScope(flow.serverId))} :
          \A before \in {LoadChatFile(chatFiles, path)}, after \in {LoadChatFile(chatFiles', path)} :
             /\ Len(after) >= 2
             /\ after[Len(after) - 1].role = "user"
             /\ after[Len(after) - 1].content =
                   EntryContent(ContextNote(flow.replyContext), flow.message.content)
             /\ after[Len(after)].role = BotRole
             /\ after[Len(after)].content = result[1].response
             /\ SubSeq(after, 1, Len(after) - 2) = SliceLast(before, Len(after) - 2)

\* C30: the combined content of a buffer lists the message bodies in the
\* order the messages arrived, and the stored transcript holds the turns of
\* the successive flushes in flush order, each user turn followed by the
\* agent turn that answered it.
C30_ArrivalOrder == [][DeliveredInArrivalOrder' /\ TurnsAppended]_vars

(***************************************************************************)
(* Overlapping generations                                                 *)
(***************************************************************************)

\* the transcript file of the identity of the invocation in flight
FlowChatPath == ChatPath(BotRole, flow.message.authorId, FlowScope(flow.serverId))

\* the transcript has a user turn with the given content
HasUserTurn(chat, content) ==
    \E k \in 1..Len(chat) : chat[k].role = "user" /\ chat[k].content = content

\* a step in which processUserMessage is called
FlowStarts == flow'.n = flow.n + 1

\* a step in which the invocation in flight saves its transcript
FlowSaves == flow.pc = "awaiting" /\ flow'.pc = "done" /\ chatFiles' # chatFiles

\* C31: a generation can start while another one's provider call is pending;
\* each takes its copy of the transcript from the store when it starts, and
\* what it saves after its provider call is that copy with its own two turns,
\* whatever was stored in between: the save that comes last wins
C31_LastWriteWins ==
    [][/\ FlowStarts =>
            \A loaded \in {LoadChatFile(chatFiles, ChatPath(BotRole, flow'.message.authorId,
                                                          FlowScope(flow'.serverId)))} :
               /\ Len(flow'.chat) >= 1
               /\ flow'.chat[Len(flow'.chat)].content = flow'.message.content
               /\ \A k \in 1..(Len(flow'.chat) - 1) :
                     flow'.chat[k] = loaded[k + Len(loaded) + 1 - Len(flow'.chat)]
       /\ FlowSaves =>
            \A saved \in {LoadChatFile(chatFiles', FlowChatPath)} :
               /\ Len(saved) = Len(flow.chat) + 1
               /\ \A k \in 1..Len(flow.chat) : saved[k] = flow.chat[k]
               /\ saved[Len(saved)].role = BotRole
               /\ saved[Len(saved)].content = result[1].response
               /\ \A p \in ChatPaths \ {FlowChatPath} : chatFiles'[p] = chatFiles[p]]_vars

\* both generations have delivered their response and saved, the second one
\* started while the first awaited its provider, and the stored transcript
\* has the turn of one of them and lacks the turn of the other
C31_Witness ==
    /\ flow.n = 2 /\ flow.pc = "done" /\ parked = <<>> /\ Len(emitted) = 2
    /\ \A stored \in {LoadChatFile(chatFiles, DMChatPath(BotRole, "u1"))} :
          /\ Cardinality({k \in 1..Len(stored) : stored[k].time >= Noon}) = 2
          /\ HasUserTurn(stored, flow.message.content)

(***************************************************************************)
(* Extraction batching                                                     *)
(***************************************************************************)

\* a step in which the invocation in flight ends after it delivered the
\* generated response
ResponseDelivered ==
    /\ flow.pc = "awaiting" /\ flow'.pc = "done"
    /\ Len(replies') > Len(replies)
    /\ replies'[Len(replies) + 1].content # Apology

\* the accumulation buffer of the user once the two turns of the delivered
\* response are pushed
Accumulated ==
    extractionBuffers[flow.message.authorId]
       \o <<BufferedMessage(FlowScope(flow.serverId)), BufferedMessage(FlowScope(flow.serverId))>>

\* C32: a delivered response adds two turns to the accumulation buffer of the
\* user; below the batch size the buffer keeps them, and once the batch size
\* is reached the extraction step runs and leaves the buffer of that user
\* empty, in private and in community contexts alike
C32_ExtractionBatching ==
    [][ResponseDelivered =>
          \A buffered \in {Accumulated} :
             extractionBuffers'[flow.message.authorId] =
                IF Len(buffered) >= messageBufferSize THEN <<>> ELSE buffered]_vars

\* the same in private contexts only
ExtractionBatchingInPrivate ==
    [][ResponseDelivered /\ flow.serverId = <<>> =>
          \A buffered \in {Accumulated} :
             extractionBuffers'[flow.message.authorId] =
                IF Len(buffered) >= messageBufferSize THEN <<>> ELSE buffered]_vars

\* the same when the extractor returns nothing
ExtractionBatchingWithoutResult ==
    [][ResponseDelivered /\ memoryFiles' = memoryFiles /\ flow'.outcome = "responded" =>
          \A buffered \in {Accumulated} :
             extractionBuffers'[flow.message.authorId] =
                IF Len(buffered) >= messageBufferSize THEN <<>> ELSE buffered]_vars

(***************************************************************************)
(* Extraction without a result                                             *)
(***************************************************************************)

\* C33: a call of processBatchedMemory in which the extractor returns nothing,
\* or in which no message of the batch has the context of the update, leaves
\* every memory file as it was, those of the user and those of the
\* communities, and returns without an error
C33_ExtractorNoOp ==
    [][(/\ lastCall'.op = "processBatchedMemory"
        /\ lastCall'.n = lastCall.n + 1
        /\ (lastCall'.result = <<>> \/ lastCall'.outcome = "no messages"))
       => /\ memoryFiles' = memoryFiles
          /\ lastCall'.outcome \in {"no messages", "no extracted"}]_vars

\* C33 witness: after a call that wrote, a call for a batch of server s1 whose
\* extractor returned nothing, while a write would have succeeded
C33_Witness ==
    /\ lastCall.op = "processBatchedMemory"
    /\ lastCall.n = 2
    /\ lastCall.result = <<>>
    /\ lastCall.ok
    /\ lastCall.serverId = <<"s1">>
    /\ lastCall.outcome = "no extracted"
    /\ memoryFiles[ServerUserMemoryPath(BotRole, "u1", "s1")] # <<>>

(***************************************************************************)
(* Return from away                                                        *)
(***************************************************************************)

\* the agent is flagged away and the time of awayUntil has been reached
AwayExpired == aiStatus.isAway /\ aiStatus.awayUntil # <<>> /\ now >= aiStatus.awayUntil[1]

\* C34: the away flag goes from true to false only in a step that is
\* resetAwayStatus and nothing else, and that step leaves the availability
\* state at {isAway: false, awayReason: '', awayUntil: null}; passing time
\* never clears it. A message handled once awayUntil is reached, with the
\* flag still set, is not declined on account of the away state, and if the
\* gate accepts it shouldGoAway is evaluated again: the message is answered
\* with an excuse or buffered according to it, and the availability state and
\* the counters are the ones it leaves
C34_ReturnFromAway ==
    [][/\ (aiStatus.isAway /\ ~aiStatus'.isAway)
          => /\ aiStatus' = NotAway
             /\ UNCHANGED <<now, nHandled, lastGate, messageCounters, messageBuffers, timers,
                            sent, delivered>>
       /\ (now' # now) => aiStatus' = aiStatus
       /\ (Handled /\ AwayExpired)
          => /\ aiStatus'.isAway
             /\ lastGate'[1].decision # <<>> => lastGate'[1].decision[1].cause # "away"
             /\ GateAccepted(lastGate'[1])
                => \A goAway \in {shouldGoAway(lastGate'[1].message.guild)} :
                      /\ lastGate'[1].outcome = IF goAway.away THEN "excuse" ELSE "buffered"
                      /\ aiStatus' = goAway.status
                      /\ messageCounters' = goAway.counters]_vars

\* C34 witness: the agent went away tired, the thirty minutes passed, the flag
\* was still set, and the next message was accepted by the gate and met the
\* fatigue test again
C34_Witness ==
    /\ nHandled = 2
    /\ lastGate[1].outcome = "excuse"
    /\ Len(sent) = 2
    /\ sent[1].reason = "tired"
    /\ sent[2].reason = "tired"
    /\ aiStatus.awayUntil = <<now + 30 * MinuteMs>>
    /\ now = Noon + LongStep

(***************************************************************************)
(* The buffers and their timers                                            *)
(***************************************************************************)

\* the armed timeouts of buffer key k
TimersOf(k) == {t \in timers : t.key = k}

\* C35: every buffer that exists holds at least one message, records the
\* community of its first message as serverId, and has exactly one armed
\* timeout, the one it records; an armed timeout of a key without buffer, if
\* there were one, would fire without a call of the callback
C35_BufferInvariant ==
    /\ \A k \in Keys :
          messageBuffers[k] # <<>>
          => /\ Len(messageBuffers[k][1].messages) >= 1
             /\ messageBuffers[k][1].serverId = messageBuffers[k][1].messages[1].guild
             /\ messageBuffers[k][1].timer # <<>>
             /\ TimersOf(k) = {messageBuffers[k][1].timer[1]}
    /\ \A t \in timers :
          messageBuffers[t.key] = <<>>
          => processBatchedMessages(messageBuffers, delivered, t.key) =
                [buffers |-> messageBuffers, calls |-> delivered]

\* C35 witness: after a flush a buffer is open for the private key and one
\* for the channel of server s1, and two timeouts are armed
C35_Witness ==
    /\ Len(delivered) >= 1
    /\ messageBuffers[BufferKey("u1", "dm1")] # <<>>
    /\ messageBuffers[BufferKey("u1", "c1")] # <<>>
    /\ Cardinality(timers) = 2

(***************************************************************************)
(* No loss and no duplication in the batcher                               *)
(***************************************************************************)

\* the number of places message number id is held at: positions in the
\* buffers and positions in the combined messages handed to processFn
PlacesOf(id) ==
    Cardinality({<<k, i>> \in Keys \X (1..MaxHandled + 1) :
                    /\ messageBuffers[k] # <<>>
                    /\ i <= Len(messageBuffers[k][1].messages)
                    /\ messageBuffers[k][1].messages[i].id = id})
    + Cardinality({<<n, j>> \in (1..Len(delivered)) \X (1..MaxHandled + 1) :
                    /\ j <= Len(delivered[n].originalMessages)
                    /\ delivered[n].originalMessages[j].id = id})

\* message number id waits in a buffer of bufs
BufferedIn(bufs, id) ==
    \E k \in Keys : /\ bufs[k] # <<>>
                    /\ \E i \in 1..Len(bufs[k][1].messages) : bufs[k][1].messages[i].id = id

\* message number id is part of a combined message of log
DeliveredIn(log, id) ==
    \E n \in 1..Len(log) :
       \E j \in 1..Len(log[n].originalMessages) : log[n].originalMessages[j].id = id

Buffered(id) == BufferedIn(messageBuffers, id)

Delivered(id) == DeliveredIn(delivered, id)

\* every message held is held at one place, in a buffer of its own key or in
\* a combined message of its own key
HeldOnce ==
    /\ \A id \in 1..nHandled : PlacesOf(id) <= 1
    /\ \A k \in Keys : messageBuffers[k] # <<>> =>
          \A i \in 1..Len(messageBuffers[k][1].messages) : KeyOf(messageBuffers[k][1].messages[i]) = k
    /\ \A n \in 1..Len(delivered) :
          \A j \in 1..Len(delivered[n].originalMessages) :
             /\ KeyOf(delivered[n].originalMessages[j]) = KeyOf(delivered[n].originalMessages[1])
             /\ delivered[n].authorId = delivered[n].originalMessages[j].authorId
             /\ delivered[n].channelId = delivered[n].originalMessages[j].channelId

\* a message the batcher took is held from then on, and a message handed to
\* processFn stays handed over
NothingLost ==
    /\ (nHandled' = nHandled + 1 /\ lastGate'[1].outcome = "buffered")
          => BufferedIn(messageBuffers', nHandled')
    /\ \A id \in 1..nHandled :
          /\ (Buffered(id) \/ Delivered(id))
                => (BufferedIn(messageBuffers', id) \/ DeliveredIn(delivered', id))
          /\ Delivered(id) => DeliveredIn(delivered', id)

\* C36: under any interleaving of arrivals, timeouts and clock steps, a
\* message accepted into the batcher is from then on held at exactly one
\* place, a buffer or a combined message of its own key, and if the clock runs
\* and due timeouts fire it ends up in a combined message handed to
\* processFn, also when it arrives after a flush of its key
C36_NoLossNoDuplication ==
    /\ []HeldOnce
    /\ [][NothingLost]_vars
    /\ \A id \in 1..MaxHandled + 1 : Buffered(id) ~> Delivered(id)

\* C36 witness: a message of the private key was flushed, a later message of
\* that key was flushed on its own, and nothing waits
C36_Witness ==
    /\ Len(delivered) = 2
    /\ KeyOf(delivered[1].originalMessages[1]) = BufferKey("u1", "dm1")
    /\ KeyOf(delivered[2].originalMessages[1]) = BufferKey("u1", "dm1")
    /\ Len(delivered[1].originalMessages) = 1
    /\ Len(delivered[2].originalMessages) = 1
    /\ delivered[1].originalMessages[1].id < delivered[2].originalMessages[1].id
    /\ \A k \in Keys : messageBuffers[k] = <<>>

(***************************************************************************)
(* One reply per turn                                                      *)
(***************************************************************************)

\* the messages the invocation in flight sends in the step that ends it
SentInTurn == SubSeq(replies', Len(replies) + 1, Len(replies'))

\* C37: a turn sends the user at most one message, the generated response or
\* the apology; after the generated response no apology follows
C37_OneReplyPerTurn ==
    [][(flow.pc = "awaiting" /\ flow'.pc = "done")
       => \A sentNow \in {SentInTurn} :
             /\ Len(sentNow) <= 1
             /\ \A i \in 1..Len(sentNow) :
                   sentNow[i].content = Apology => i = 1]_vars

\* the same for turns in private
OneReplyPerTurnInPrivate ==
    [][(flow.pc = "awaiting" /\ flow'.pc = "done" /\ flow.serverId = <<>>)
       => Len(SentInTurn) <= 1]_vars

(***************************************************************************)
(* The stores when the dispatch fails                                      *)
(***************************************************************************)

\* what a turn may change: the transcripts, the fatigue counters, the
\* accumulation buffers and the memories
TurnStores == <<chatFiles, messageCounters, extractionBuffers, memoryFiles>>

\* C38: the steps of a turn whose dispatch raises, from the call of
\* processUserMessage to the end of its catch, leave the transcripts, the
\* global and the community fatigue counters, the accumulation buffers and the
\* memories as they were; these change only in the step of a turn that has
\* sent its generated response
C38_UnchangedOnFailure ==
    [][/\ (flow.pc = "awaiting" /\ flow'.pc = "done" /\ ask.pc = "thrown")
          => /\ UNCHANGED TurnStores
             /\ flow'.outcome = "caught"
       /\ (TurnStores' # TurnStores)
          => /\ ResponseDelivered
             /\ ask.pc = "returned"
             /\ replies'[Len(replies) + 1].content = result[1].response]_vars

\* C38 witness: after a turn that responded and saved, a turn of the same
\* user ended in the catch because every provider failed; the transcript, the
\* counter and the buffer are those the first turn left
C38_Witness ==
    /\ flow.n = 2 /\ flow.pc = "done" /\ flow.outcome = "caught"
    /\ ask.pc = "thrown"
    /\ flow.serverId = <<>>
    /\ Len(LoadChatFile(chatFiles, DMChatPath(BotRole, "u1"))) = 2
    /\ messageCounters.global.hourly = 1
    /\ Len(extractionBuffers["u1"]) = 2

(***************************************************************************)
(* Where the text of a result comes from                                   *)
(***************************************************************************)

\* a call of this invocation to provider p returned the given text
ReturnedBy(p, text) ==
    \E i \in 1..Len(calls) :
       calls[i].done /\ calls[i].ok /\ calls[i].provider = p /\ calls[i].text = text

\* C39: whenever askAI has returned a result, its text was returned by a call
\* to the provider the result names; a name that matches no known provider
\* never yields a result
C39_ResultFromProviderCall ==
    result # <<>>
    => /\ result[1].provider \in Providers
       /\ ReturnedBy(result[1].provider, result[1].response)

\* the same for results of the primary provider
PrimaryResultFromProviderCall ==
    (result # <<>> /\ ~result[1].wasFallback)
    => /\ result[1].provider \in Providers
       /\ ReturnedBy(result[1].provider, result[1].response)

\* an unknown name in the primary setting is a failed attempt: the error is
\* recorded and no result is returned for it
UnknownPrimaryFails ==
    (ask.pc # "idle" /\ ask.primaryAI \notin Providers)
    => /\ ask.primaryError # <<>>
       /\ (result # <<>> => result[1].wasFallback)

(***************************************************************************)
(* The scope of an extraction                                              *)
(***************************************************************************)

\* the scope of a memory.json of a user: "dm" or the server id
ScopeOfPath(path) == IF Len(path) = 4 THEN "dm" ELSE path[5]

\* C40: in every call of processBatchedMemory the turns handed to the
\* extractor all carry the context of the memory the call then updates, and
\* the only memory files the call changes are the user's memory of that scope
\* and, for a community, the memory of that same community: the private
\* memory changes only with private turns, a community's memories only with
\* turns of that community
C40_ScopeIsolation ==
    [][(lastCall'.op = "processBatchedMemory" /\ lastCall'.n = lastCall.n + 1)
       => \A scope \in {ScopeOfPath(lastCall'.path)} :
             /\ lastCall'.path = MemoryPath(BotRole, "u1", scope)
             /\ \A i \in 1..Len(lastCall'.submitted) : lastCall'.submitted[i].context = scope
             /\ \A p \in DOMAIN memoryFiles :
                   memoryFiles'[p] # memoryFiles[p]
                   => /\ lastCall'.submitted # <<>>
                      /\ \/ p = MemoryPath(BotRole, "u1", scope)
                         \/ scope # "dm" /\ p = ServerMemoryPath(scope)]_vars

\* C40 witness: a turn in server s1 handed over a buffer that starts with a
\* private turn; the private turn alone went to the extractor, and the
\* private memory is the only memory file there is
C40_Witness ==
    /\ lastCall.op = "processBatchedMemory"
    /\ lastCall.serverId = <<"s1">>
    /\ lastCall.submitted = <<BufferedMessage("dm")>>
    /\ lastCall.outcome = "updated"
    /\ memoryFiles[DMMemoryPath(BotRole, "u1")] # <<>>
    /\ \A p \in DOMAIN memoryFiles : p # DMMemoryPath(BotRole, "u1") => memoryFiles[p] = <<>>
====
